---- MODULE Spec2Model ----
(***************************************************************************)
(* A model of the Bali procedure compiler and assembler.                   *)
(*                                                                         *)
(* The compiler walks a procedure syntax tree (CompilingVisitor) and emits *)
(* assembly text through the InstructionBuilder; compileProcedure then     *)
(* parses and reformats that text.  The assembler parses the text again    *)
(* and encodes one bytecode word per step.                                 *)
(*                                                                         *)
(* Text is modelled as a sequence of lines, each line being the sequence   *)
(* of tokens the lexer sees (white space and indentation are dropped).     *)
(* A syntax tree node is a record [type, value, children]; the compiler's  *)
(* visitor and builder are modelled as one record `v` that is threaded     *)
(* through the operators in the order of the JavaScript statements.        *)
(***************************************************************************)
EXTENDS Integers, Sequences, FiniteSets, TLC

VARIABLES
    type,      \* the type context: [literals, constants]
    source,    \* the source being compiled: [parameters, procedure]
    visitor,   \* the compiling visitor (with its builder) of the last compilation
    context,   \* the compilation context returned by compileProcedure
    exception, \* the exception that left the last operation, or NoException
    pc,        \* "source", "compiled", "assembled" or "failed"; for the registry
               \* "intrinsics", "named", "indexed" or "invoked"
    argument,  \* the argument of a call of the intrinsic registry
    result     \* what the call of the intrinsic registry returned

vars == <<type, source, visitor, context, exception, pc, argument, result>>

-----------------------------------------------------------------------------
(* Bounds of the model.                                                    *)

MaxStatements == 2   \* statements in the top level procedure
MaxConditions == 2   \* condition or option clauses of one if or select
MaxHandlers == 2     \* handle clauses of one statement
MaxParameters == 4   \* arguments of one function call
MaxSteps == 2        \* steps of a hand written assembly document
MaxItems == 2        \* items of one collection, indices of one subcomponent

-----------------------------------------------------------------------------
(* JavaScript values.                                                      *)

\* An optional value: undefined is the empty sequence, the value x is <<x>>.
Undefined == <<>>
Defined(x) == <<x>>
NoException == "none"
NoLabel == ""        \* an undefined label (undefined and '' are both falsy)

\* The sequence seq with its last element replaced (stack.peek() mutation).
ReplaceLast(seq, item) == [seq EXCEPT ![Len(seq)] = item]

peek(seq) == seq[Len(seq)]

\* The set of the members of a sequence.
Range(seq) == {seq[i] : i \in 1..Len(seq)}

-----------------------------------------------------------------------------
(* Ordered collections of the component framework: a set keeps its items   *)
(* in insertion order without duplicates, a catalog keeps its keys in      *)
(* insertion order and setValue replaces the value of an existing key.     *)

containsItem(collection, item) == \E i \in 1..Len(collection) : collection[i] = item

addItem(collection, item) ==
    IF containsItem(collection, item) THEN collection ELSE Append(collection, item)

\* getIndex returns the 1-based position of the item, or 0 when it is absent.
getIndex(collection, item) ==
    IF containsItem(collection, item)
    THEN CHOOSE i \in 1..Len(collection) : collection[i] = item
    ELSE 0

getKeys(catalog) == [i \in 1..Len(catalog) |-> catalog[i].key]

hasKey(catalog, key) == \E i \in 1..Len(catalog) : catalog[i].key = key

\* getValue returns the optional value of the key.
getValue(catalog, key) ==
    IF hasKey(catalog, key)
    THEN Defined(catalog[CHOOSE i \in 1..Len(catalog) : catalog[i].key = key].value)
    ELSE Undefined

setValue(catalog, key, value) ==
    IF hasKey(catalog, key)
    THEN [i \in 1..Len(catalog) |->
            IF catalog[i].key = key THEN [key |-> key, value |-> value] ELSE catalog[i]]
    ELSE Append(catalog, [key |-> key, value |-> value])

\* bali.text(string): the text component of a label.
text(string) == [text |-> string]

\* bali.parse / bali.component of a literal or symbol text: the component.
parse(string) == [component |-> string]

\* The canonical text of a component.
formatComponent(component) == component.component

\* A LITERAL token of the assembly text: the value between two back ticks.
backticked(string) == [backticked |-> string]

\* operand.slice(1, -1) of a LITERAL token removes the back ticks.
slice1m1(token) == token.backticked

-----------------------------------------------------------------------------
(* Syntax trees.  Every node exposes getChild(i) (negative i counts from   *)
(* the end), getSize() and its type; `value` holds the text of a leaf      *)
(* (element text, identifier, symbol, function or message name, operator). *)

Node(t, string, children) == [type |-> t, value |-> string, children |-> children]

getSize(tree) == Len(tree.children)

getChild(tree, i) ==
    IF i > 0 THEN tree.children[i] ELSE tree.children[Len(tree.children) + 1 + i]

toArray(tree) == tree.children

\* bali.types.symbolForType(typeId).slice(1, -6): the '$' and the trailing
\* 'Clause' are removed from the symbol of the main clause's type.
StatementType(clause) ==
    CASE clause.type = "BreakClause" -> "Break"
      [] clause.type = "CheckoutClause" -> "Checkout"
      [] clause.type = "CommitClause" -> "Commit"
      [] clause.type = "ContinueClause" -> "Continue"
      [] clause.type = "DiscardClause" -> "Discard"
      [] clause.type = "EvaluateClause" -> "Evaluate"
      [] clause.type = "IfClause" -> "If"
      [] clause.type = "PublishClause" -> "Publish"
      [] clause.type = "QueueClause" -> "Queue"
      [] clause.type = "ReturnClause" -> "Return"
      [] clause.type = "SaveClause" -> "Save"
      [] clause.type = "SelectClause" -> "Select"
      [] clause.type = "ThrowClause" -> "Throw"
      [] clause.type = "WaitClause" -> "Wait"
      [] clause.type = "WhileClause" -> "While"
      [] clause.type = "WithClause" -> "With"

\* Array.prototype.slice(1) of a sequence.
slice1(array) == [i \in 1..(Len(array) - 1) |-> array[i + 1]]

RECURSIVE getSubclauses_loop(_, _)
getSubclauses_loop(statement, i) ==
    IF i > getSize(statement) THEN <<>>
    ELSE (IF getChild(statement, i).type = "Block" THEN <<getChild(statement, i)>> ELSE <<>>)
         \o getSubclauses_loop(statement, i + 1)

getSubclauses(statement) == getSubclauses_loop(statement, 1)

-----------------------------------------------------------------------------
(* InstructionBuilder.  The builder state and the visitor's temporary      *)
(* variable counter live in one record v.  A thrown exception is recorded  *)
(* in v.exception; once it is set no later statement has any effect, which *)
(* is the unwinding of the JavaScript call stack.                          *)

Thrown(v) == v.exception # NoException

throw(v, name) == IF Thrown(v) THEN v ELSE [v EXCEPT !.exception = name]

The(S) == CHOOSE r \in S : TRUE

\* The value of an expression, named once for what follows.
Bind(x, F(_)) == The({F(w) : w \in {x}})

\* Statement sequencing: the rest of a method runs on the state its first
\* statement leaves, unless that statement threw.
Then(v, F(_)) == IF Thrown(v) THEN v ELSE F(v)

\* function InstructionBuilder(type, context) and function CompilingVisitor:
\* requiresFinalization and nextLabel are not assigned by the constructor,
\* they start undefined (falsy).
InstructionBuilder(typeContext, compilation) ==
    [ temporaryVariableCount |-> 1,
      literals |-> typeContext.literals,
      constants |-> typeContext.constants,
      parameters |-> compilation.parameters,
      variables |-> compilation.variables,
      procedures |-> compilation.procedures,
      addresses |-> compilation.addresses,
      address |-> 1,
      stack |-> <<>>,
      asmcode |-> <<>>,
      nextLabel |-> NoLabel,
      requiresFinalization |-> FALSE,
      exception |-> NoException ]

\* pushProcedureContext that leaves the clause number of the parent as it is.
pushProcedureContext_sameClause(v, procedure) ==
    IF Thrown(v) THEN v
    ELSE [v EXCEPT !.stack = Append(v.stack,
              [ statementNumber |-> 1,
                statementCount |-> getSize(procedure),
                prefix |-> IF Len(v.stack) > 0
                           THEN peek(v.stack).prefix \o ToString(peek(v.stack).statementNumber)
                                \o "." \o ToString(peek(v.stack).statement.clauseNumber) \o "."
                           ELSE "",
                statement |-> Undefined ])]

pushProcedureContext(v, procedure) ==
    IF Thrown(v) THEN v
    ELSE LET statementCount == getSize(procedure) IN
         IF Len(v.stack) > 0
         THEN LET parent == peek(v.stack)
                  child == [ statementNumber |-> 1,
                             statementCount |-> statementCount,
                             prefix |-> parent.prefix \o ToString(parent.statementNumber) \o "."
                                        \o ToString(parent.statement.clauseNumber) \o ".",
                             statement |-> Undefined ]
                  parent2 == [parent EXCEPT !.statement.clauseNumber = @ + 1]
              IN [v EXCEPT !.stack = Append(ReplaceLast(v.stack, parent2), child)]
         ELSE [v EXCEPT !.stack = Append(v.stack,
                   [ statementNumber |-> 1,
                     statementCount |-> statementCount,
                     prefix |-> "",
                     statement |-> Undefined ])]

popProcedureContext(v) ==
    IF Thrown(v) THEN v
    ELSE [v EXCEPT !.stack = SubSeq(v.stack, 1, Len(v.stack) - 1)]

pushStatementContext(v, tree) ==
    IF Thrown(v) THEN v
    ELSE LET mainClause == getChild(tree, 1)
             subClauses == getSubclauses(mainClause)
             handleClauses == slice1(toArray(tree))
             clauseCount == Len(subClauses) + Len(handleClauses)
             procedure == peek(v.stack)
             typeName == StatementType(mainClause)
             prefix == procedure.prefix \o ToString(procedure.statementNumber) \o "."
             statement ==
                 [ mainClause |-> mainClause,
                   subClauses |-> subClauses,
                   handleClauses |-> handleClauses,
                   clauseCount |-> clauseCount,
                   clauseNumber |-> 1,
                   startLabel |-> prefix \o typeName \o "Statement",
                   doneLabel |-> IF clauseCount > 0
                                 THEN prefix \o typeName \o "StatementDone" ELSE NoLabel,
                   handlerLabel |-> IF Len(handleClauses) > 0
                                    THEN prefix \o typeName \o "StatementHandlers" ELSE NoLabel,
                   failureLabel |-> IF Len(handleClauses) > 0
                                    THEN prefix \o typeName \o "StatementFailed" ELSE NoLabel,
                   successLabel |-> IF Len(handleClauses) > 0
                                    THEN prefix \o typeName \o "StatementSucceeded" ELSE NoLabel,
                   loopLabel |-> NoLabel ]
         IN [v EXCEPT !.stack = ReplaceLast(v.stack, [procedure EXCEPT !.statement = statement])]

popStatementContext(v) ==
    IF Thrown(v) THEN v
    ELSE [v EXCEPT !.stack = ReplaceLast(v.stack, [peek(v.stack) EXCEPT !.statement = Undefined])]

hasClauses(v) == peek(v.stack).statement.clauseCount > 0

\* hasHandlers as it would be if every statement with clauses had handlers.
hasHandlers_anyClause(v) == peek(v.stack).statement.clauseCount > 0

hasHandlers(v) == Len(peek(v.stack).statement.handleClauses) > 0

incrementStatementCount(v) ==
    IF Thrown(v) THEN v
    ELSE [v EXCEPT !.stack = ReplaceLast(v.stack,
              [peek(v.stack) EXCEPT !.statementNumber = @ + 1])]

getStatementPrefix(v) ==
    LET procedure == peek(v.stack)
    IN procedure.prefix \o ToString(procedure.statementNumber) \o "."

getStatementContext(v) == peek(v.stack).statement

getClausePrefix(v) ==
    LET procedure == peek(v.stack)
    IN procedure.prefix \o ToString(procedure.statementNumber) \o "."
       \o ToString(procedure.statement.clauseNumber) \o "."

\* getNextClausePrefix without the step to the next clause.
getNextClausePrefix_current(v) ==
    LET procedure == peek(v.stack)
    IN procedure.prefix \o ToString(procedure.statementNumber) \o "."
       \o ToString(procedure.statement.clauseNumber) \o "."

getNextClausePrefix(v) ==
    LET procedure == peek(v.stack)
    IN procedure.prefix \o ToString(procedure.statementNumber) \o "."
       \o ToString(procedure.statement.clauseNumber + 1) \o "."

\* insertInstruction that records the pending label after the address has
\* advanced.
insertInstruction_addressAfter(v, instruction) ==
    IF Thrown(v) THEN v
    ELSE LET labelled ==
                 IF v.nextLabel # NoLabel
                 THEN [v EXCEPT
                         !.addresses = setValue(v.addresses, text(v.nextLabel), v.address + 1),
                         !.asmcode = (IF v.asmcode # <<>> THEN Append(v.asmcode, <<>>) ELSE v.asmcode)
                                     \o << <<v.nextLabel, ":">> >>,
                         !.nextLabel = NoLabel]
                 ELSE v
         IN [labelled EXCEPT
               !.asmcode = Append(labelled.asmcode, instruction),
               !.address = labelled.address + 1]

\* insertInstruction: a pending label is recorded in the address table and
\* written on its own line (after a blank line unless it is the first line),
\* then the instruction is appended and the address advances.
insertInstruction(v, instruction) ==
    IF Thrown(v) THEN v
    ELSE LET labelled ==
                 IF v.nextLabel # NoLabel
                 THEN [v EXCEPT
                         !.addresses = setValue(v.addresses, text(v.nextLabel), v.address),
                         !.asmcode = (IF v.asmcode # <<>> THEN Append(v.asmcode, <<>>) ELSE v.asmcode)
                                     \o << <<v.nextLabel, ":">> >>,
                         !.nextLabel = NoLabel]
                 ELSE v
         IN [labelled EXCEPT
               !.asmcode = Append(labelled.asmcode, instruction),
               !.address = labelled.address + 1]

insertSkipInstruction(v) == insertInstruction(v, <<"SKIP", "INSTRUCTION">>)

\* insertLabel that replaces a pending label instead of emitting a skip.
insertLabel_withoutSkip(v, label) ==
    IF Thrown(v) THEN v ELSE [v EXCEPT !.nextLabel = label]

insertLabel(v, label) ==
    IF Thrown(v) THEN v
    ELSE LET skipped == IF v.nextLabel # NoLabel THEN insertSkipInstruction(v) ELSE v
         IN [skipped EXCEPT !.nextLabel = label]

\* The optional context argument is the token sequence of e.g. 'ON FALSE';
\* the empty sequence stands for a missing argument.
insertJumpInstruction(v, label, jumpContext) ==
    insertInstruction(v, <<"JUMP", "TO", label>> \o jumpContext)

\* insertPushInstruction that adds the literal to the list without looking
\* for it first.
insertPushInstruction_alwaysAdds(v, modifier, value) ==
    IF Thrown(v) THEN v
    ELSE IF modifier = "LITERAL"
         THEN insertInstruction([v EXCEPT !.literals = Append(v.literals, parse(value))],
                                <<"PUSH", modifier, backticked(value)>>)
         ELSE insertInstruction(v, <<"PUSH", modifier, value>>)

insertPushInstruction(v, modifier, value) ==
    IF Thrown(v) THEN v
    ELSE CASE modifier = "HANDLER" ->
                insertInstruction(v, <<"PUSH", modifier, value>>)
           [] modifier = "LITERAL" ->
                LET literal == parse(value)
                    interned == IF ~containsItem(v.literals, literal)
                                THEN [v EXCEPT !.literals = addItem(v.literals, literal)]
                                ELSE v
                IN insertInstruction(interned, <<"PUSH", modifier, backticked(value)>>)
           [] modifier = "CONSTANT" ->
                insertInstruction(v, <<"PUSH", modifier, value>>)
           [] modifier = "PARAMETER" ->
                insertInstruction(v, <<"PUSH", modifier, value>>)

insertPopInstruction(v, modifier) == insertInstruction(v, <<"POP", modifier>>)

insertLoadInstruction(v, modifier, symbol) ==
    IF Thrown(v) THEN v
    ELSE LET inserted == insertInstruction(v, <<"LOAD", modifier, symbol>>)
         IN [inserted EXCEPT !.variables = addItem(inserted.variables, parse(symbol))]

insertStoreInstruction(v, modifier, symbol) ==
    IF Thrown(v) THEN v
    ELSE LET inserted == insertInstruction(v, <<"STORE", modifier, symbol>>)
         IN [inserted EXCEPT !.variables = addItem(inserted.variables, parse(symbol))]

insertInvokeInstruction(v, intrinsic, numberOfParameters) ==
    insertInstruction(v,
        <<"INVOKE", intrinsic>> \o
        (CASE numberOfParameters = 0 -> <<>>
           [] numberOfParameters = 1 -> <<"WITH", "PARAMETER">>
           [] OTHER -> <<"WITH", ToString(numberOfParameters), "PARAMETERS">>))

insertExecuteInstruction(v, procedure, executeContext) ==
    IF Thrown(v) THEN v
    ELSE LET inserted == insertInstruction(v, <<"EXECUTE", procedure>> \o executeContext)
         IN [inserted EXCEPT !.procedures = addItem(inserted.procedures, procedure)]

insertHandleInstruction(v, modifier) == insertInstruction(v, <<"HANDLE", modifier>>)

finalize(v) ==
    Then(insertLoadInstruction(v, "VARIABLE", "$$result"), LAMBDA v1 :
    insertHandleInstruction(v1, "RESULT"))

setRequiresFinalization(v, flag) ==
    IF Thrown(v) THEN v ELSE [v EXCEPT !.requiresFinalization = flag]

-----------------------------------------------------------------------------
(* CompilingVisitor.  acceptVisitor dispatches on the type of the node.    *)
(* The statements of a method are chained with Then, in their order.       *)

RECURSIVE acceptVisitor(_, _)

createTemporaryVariable(v, name) == "$$" \o name \o "-" \o ToString(v.temporaryVariableCount)

\* The post-increment of temporaryVariableCount in createTemporaryVariable.
incrementTemporaryVariableCount(v) == [v EXCEPT !.temporaryVariableCount = @ + 1]

\* statement.loopLabel = label, on the statement of the current procedure context.
setLoopLabel(v, label) ==
    [v EXCEPT !.stack = ReplaceLast(v.stack, [peek(v.stack) EXCEPT !.statement.loopLabel = label])]

\* The search of visitBreakClause from the outermost context inwards.
findLoop_outermost(procedures, i) ==
    IF \E k \in 1..Len(procedures) :
          procedures[k].statement # Undefined /\ procedures[k].statement.loopLabel # NoLabel
    THEN CHOOSE k \in 1..Len(procedures) :
            /\ procedures[k].statement # Undefined
            /\ procedures[k].statement.loopLabel # NoLabel
            /\ \A j \in 1..(k - 1) : procedures[j].statement.loopLabel = NoLabel
    ELSE 0

\* The search of visitBreakClause and visitContinueClause: the index of the
\* innermost procedure context whose statement has a loop label, or 0.
RECURSIVE findLoop(_, _)
findLoop(procedures, i) ==
    IF i >= Len(procedures) THEN 0
    ELSE IF procedures[Len(procedures) - i].statement.loopLabel # NoLabel
         THEN Len(procedures) - i
         ELSE findLoop(procedures, i + 1)

\* visitBreakClause as it would be if a break outside of every loop were
\* passed over in silence.
visitBreakClause_withoutThrow(tree, v) ==
    IF findLoop(v.stack, 0) > 0
    THEN insertJumpInstruction(v, v.stack[findLoop(v.stack, 0)].statement.doneLabel, <<>>)
    ELSE v

visitBreakClause(tree, v) ==
    IF findLoop(v.stack, 0) > 0
    THEN insertJumpInstruction(v, v.stack[findLoop(v.stack, 0)].statement.doneLabel, <<>>)
    ELSE throw(v, "$noEnclosingLoop")

visitContinueClause(tree, v) ==
    IF findLoop(v.stack, 0) > 0
    THEN insertJumpInstruction(v, v.stack[findLoop(v.stack, 0)].statement.loopLabel, <<>>)
    ELSE throw(v, "$noEnclosingLoop")

\* element.getParameters() is the optional child of the element.
visitElement(element, v) ==
    Then(insertPushInstruction(v, "LITERAL", element.value), LAMBDA v1 :
    IF getSize(element) > 0
    THEN Then(acceptVisitor(getChild(element, 1), v1), LAMBDA v2 :
         insertInvokeInstruction(v2, "$setParameters", 2))
    ELSE v1)

setRecipient(recipient, v) ==
    IF recipient.type = "Symbol"
    THEN insertStoreInstruction(v, "VARIABLE", recipient.value)
    ELSE Then(insertStoreInstruction(incrementTemporaryVariableCount(v), "VARIABLE",
                                     createTemporaryVariable(v, "index")), LAMBDA v1 :
         Then(insertInvokeInstruction(v1, "$list", 0), LAMBDA v2 :
         Then(insertLoadInstruction(v2, "VARIABLE", createTemporaryVariable(v, "index")), LAMBDA v3 :
         Then(insertInvokeInstruction(v3, "$addItem", 2), LAMBDA v4 :
         Then(insertInvokeInstruction(v4, "$parameters", 1), LAMBDA v5 :
         insertExecuteInstruction(v5, "$setSubcomponent", <<"ON", "TARGET", "WITH", "PARAMETERS">>))))))

visitEvaluateClause(tree, v) ==
    IF getSize(tree) > 1
    THEN Then(IF getChild(tree, 1).type = "SubcomponentExpression"
              THEN acceptVisitor(getChild(tree, 1), v) ELSE v, LAMBDA v1 :
         Then(acceptVisitor(getChild(tree, -1), v1), LAMBDA v2 :
         setRecipient(getChild(tree, 1), v2)))
    ELSE Then(acceptVisitor(getChild(tree, -1), v), LAMBDA v1 :
         insertStoreInstruction(v1, "VARIABLE", "$$result"))

\* An association passes its value, the key is not compiled.
RECURSIVE visitFunctionExpression_loop(_, _, _)
visitFunctionExpression_loop(parameters, i, v) ==
    IF i > getSize(parameters) THEN v
    ELSE Then(acceptVisitor(IF getChild(parameters, i).type = "Association"
                            THEN getChild(getChild(parameters, i), 2)
                            ELSE getChild(parameters, i), v), LAMBDA v1 :
         visitFunctionExpression_loop(parameters, i + 1, v1))

\* visitFunctionExpression as it would be if the number of parameters were
\* verified after they have been compiled.
visitFunctionExpression_lateCheck(tree, v) ==
    Then(visitFunctionExpression_loop(getChild(tree, 2), 1, v), LAMBDA v1 :
    IF getSize(getChild(tree, 2)) > 3
    THEN throw(v1, "$tooManyParameters")
    ELSE insertInvokeInstruction(v1, "$" \o getChild(tree, 1).value, getSize(getChild(tree, 2))))

visitFunctionExpression(tree, v) ==
    LET functionName == "$" \o getChild(tree, 1).value
        parameters == getChild(tree, 2)
        numberOfParameters == getSize(parameters)
    IN IF numberOfParameters > 3
       THEN throw(v, "$tooManyParameters")
       ELSE Then(visitFunctionExpression_loop(parameters, 1, v), LAMBDA v1 :
            insertInvokeInstruction(v1, functionName, numberOfParameters))

visitHandleClause(tree, v) ==
    LET symbol == getChild(tree, 1)
        template == getChild(tree, 2)
        block == getChild(tree, 3)
        clausePrefix == getClausePrefix(v)
        handleLabel == clausePrefix \o "HandleClause"
        exceptionSymbol == symbol.value
    IN Then(insertLabel(v, handleLabel), LAMBDA v1 :
       Then(insertStoreInstruction(v1, "VARIABLE", exceptionSymbol), LAMBDA v2 :
       Then(insertLoadInstruction(v2, "VARIABLE", exceptionSymbol), LAMBDA v3 :
       Then(insertLoadInstruction(v3, "VARIABLE", exceptionSymbol), LAMBDA v4 :
       Then(acceptVisitor(template, v4), LAMBDA v5 :
       Then(insertInvokeInstruction(v5, "$isMatchedBy", 2), LAMBDA v6 :
       Then(insertJumpInstruction(v6,
                IF getStatementContext(v6).clauseNumber = getStatementContext(v6).clauseCount
                THEN getStatementContext(v6).failureLabel
                ELSE getNextClausePrefix(v6) \o "HandleClause",
                <<"ON", "FALSE">>), LAMBDA v7 :
       Then(insertPopInstruction(v7, "COMPONENT"), LAMBDA v8 :
       Then(acceptVisitor(block, v8), LAMBDA v9 :
       Then(insertLabel(v9, clausePrefix \o "HandleClauseDone"), LAMBDA v10 :
       insertJumpInstruction(v10, getStatementContext(v).successLabel, <<>>)))))))))))

\* The loop of visitIfClause over the (condition, block) pairs of array;
\* the else block, when there is one, has been removed from array.
RECURSIVE visitIfClause_loop(_, _, _, _, _)
visitIfClause_loop(array, i, hasElseBlock, doneLabel, v) ==
    IF i > Len(array) THEN v
    ELSE LET condition == array[i]
             block == array[i + 1]
             hasNext == i + 1 < Len(array)
             clausePrefix == getClausePrefix(v)
         IN Then(insertLabel(v, clausePrefix \o "ConditionClause"), LAMBDA v1 :
            Then(acceptVisitor(condition, v1), LAMBDA v2 :
            Then(insertJumpInstruction(v2,
                     IF ~hasNext
                     THEN (IF hasElseBlock
                           THEN getNextClausePrefix(v2) \o "ElseClause"
                           ELSE doneLabel)
                     ELSE getNextClausePrefix(v2) \o "ConditionClause",
                     <<"ON", "FALSE">>), LAMBDA v3 :
            Then(acceptVisitor(block, v3), LAMBDA v4 :
            Then(IF hasElseBlock \/ hasNext
                 THEN Then(insertLabel(v4, clausePrefix \o "ConditionClauseDone"), LAMBDA v5 :
                      insertJumpInstruction(v5, doneLabel, <<>>))
                 ELSE v4, LAMBDA v6 :
            visitIfClause_loop(array, i + 2, hasElseBlock, doneLabel, v6))))))

\* visitIfClause that inserts no label after the else block.
visitIfClause_withoutElseDone(tree, v) ==
    LET doneLabel == getStatementContext(v).doneLabel
        hasElseBlock == getSize(tree) % 2 = 1
        array == IF hasElseBlock THEN SubSeq(toArray(tree), 1, getSize(tree) - 1) ELSE toArray(tree)
        elseBlock == getChild(tree, -1)
    IN Then(visitIfClause_loop(array, 1, hasElseBlock, doneLabel, v), LAMBDA v1 :
       IF hasElseBlock
       THEN Then(insertLabel(v1, getClausePrefix(v1) \o "ElseClause"), LAMBDA v2 :
            acceptVisitor(elseBlock, v2))
       ELSE v1)

visitIfClause(tree, v) ==
    LET doneLabel == getStatementContext(v).doneLabel
        hasElseBlock == getSize(tree) % 2 = 1
        array == IF hasElseBlock THEN SubSeq(toArray(tree), 1, getSize(tree) - 1) ELSE toArray(tree)
        elseBlock == getChild(tree, -1)
    IN Then(visitIfClause_loop(array, 1, hasElseBlock, doneLabel, v), LAMBDA v1 :
       IF hasElseBlock
       THEN Then(insertLabel(v1, getClausePrefix(v1) \o "ElseClause"), LAMBDA v2 :
            Then(acceptVisitor(elseBlock, v2), LAMBDA v3 :
            insertLabel(v3, getClausePrefix(v1) \o "ElseClauseDone")))
       ELSE v1)

RECURSIVE visitProcedure_loop(_, _, _)
visitProcedure_loop(procedure, i, v) ==
    IF i > getSize(procedure) THEN v
    ELSE Then(acceptVisitor(getChild(procedure, i), setRequiresFinalization(v, TRUE)), LAMBDA v1 :
         Then(incrementStatementCount(v1), LAMBDA v2 :
         visitProcedure_loop(procedure, i + 1, v2)))

visitProcedure(procedure, v) ==
    Then(pushProcedureContext(v, procedure), LAMBDA v1 :
    Then(visitProcedure_loop(procedure, 1, v1), LAMBDA v2 :
    popProcedureContext(v2)))

\* block: '{' procedure '}'
visitBlock(block, v) == acceptVisitor(getChild(block, 1), v)

\* visitReturnClause as it would be without its last statement, which
\* clears requiresFinalization.
visitReturnClause_flagKept(tree, v) ==
    Then(IF getSize(tree) > 0
         THEN acceptVisitor(getChild(tree, 1), v)
         ELSE insertPushInstruction(v, "LITERAL", "none"), LAMBDA v1 :
    insertHandleInstruction(v1, "RESULT"))

visitReturnClause(tree, v) ==
    Then(IF getSize(tree) > 0
         THEN acceptVisitor(getChild(tree, 1), v)
         ELSE insertPushInstruction(v, "LITERAL", "none"), LAMBDA v1 :
    Then(insertHandleInstruction(v1, "RESULT"), LAMBDA v2 :
    setRequiresFinalization(v2, FALSE)))

\* The loop of visitSelectClause over the (option, block) pairs of array;
\* the selector and the else block have been removed from array.
RECURSIVE visitSelectClause_loop(_, _, _, _, _, _)
visitSelectClause_loop(array, i, hasElseBlock, doneLabel, selectorVariable, v) ==
    IF i > Len(array) THEN v
    ELSE LET option == array[i]
             block == array[i + 1]
             hasNext == i + 1 < Len(array)
             clausePrefix == getClausePrefix(v)
         IN Then(insertLabel(v, clausePrefix \o "OptionClause"), LAMBDA v1 :
            Then(insertLoadInstruction(v1, "VARIABLE", selectorVariable), LAMBDA v2 :
            Then(acceptVisitor(option, v2), LAMBDA v3 :
            Then(insertInvokeInstruction(v3, "$isMatchedBy", 2), LAMBDA v4 :
            Then(insertJumpInstruction(v4,
                     IF ~hasNext
                     THEN (IF hasElseBlock
                           THEN getNextClausePrefix(v4) \o "ElseClause"
                           ELSE doneLabel)
                     ELSE getNextClausePrefix(v4) \o "OptionClause",
                     <<"ON", "FALSE">>), LAMBDA v5 :
            Then(acceptVisitor(block, v5), LAMBDA v6 :
            Then(IF hasElseBlock \/ hasNext
                 THEN Then(insertLabel(v6, clausePrefix \o "OptionClauseDone"), LAMBDA v7 :
                      insertJumpInstruction(v7, doneLabel, <<>>))
                 ELSE v6, LAMBDA v8 :
            visitSelectClause_loop(array, i + 2, hasElseBlock, doneLabel, selectorVariable, v8))))))))

visitSelectClause(tree, v) ==
    LET doneLabel == getStatementContext(v).doneLabel
        selector == getChild(tree, 1)
        spliced == slice1(toArray(tree))
        hasElseBlock == Len(spliced) % 2 = 1
        array == IF hasElseBlock THEN SubSeq(spliced, 1, Len(spliced) - 1) ELSE spliced
        elseBlock == getChild(tree, -1)
    IN Then(acceptVisitor(selector, v), LAMBDA v1 :
       Then(insertStoreInstruction(incrementTemporaryVariableCount(v1), "VARIABLE",
                                   createTemporaryVariable(v1, "selector")), LAMBDA v2 :
       Then(visitSelectClause_loop(array, 1, hasElseBlock, doneLabel,
                                   createTemporaryVariable(v1, "selector"), v2), LAMBDA v3 :
       IF hasElseBlock
       THEN Then(insertLabel(v3, getClausePrefix(v3) \o "ElseClause"), LAMBDA v4 :
            Then(acceptVisitor(elseBlock, v4), LAMBDA v5 :
            Then(insertLabel(v5, getClausePrefix(v3) \o "ElseClauseDone"), LAMBDA v6 :
            insertJumpInstruction(v6, doneLabel, <<>>))))
       ELSE v3)))

RECURSIVE visitStatement_handlers(_, _, _)
visitStatement_handlers(handlers, i, v) ==
    IF i > Len(handlers) THEN v
    ELSE Then(acceptVisitor(handlers[i], v), LAMBDA v1 :
         visitStatement_handlers(handlers, i + 1, v1))

\* The part of visitStatement that is inside if (this.builder.hasHandlers()).
visitStatement_handled(statement, v) ==
    Then(insertPopInstruction(v, "HANDLER"), LAMBDA v1 :
    Then(insertJumpInstruction(v1, statement.successLabel, <<>>), LAMBDA v2 :
    Then(insertLabel(v2, statement.handlerLabel), LAMBDA v3 :
    Then(visitStatement_handlers(statement.handleClauses, 1, v3), LAMBDA v4 :
    Then(insertLabel(v4, statement.failureLabel), LAMBDA v5 :
    Then(insertHandleInstruction(v5, "EXCEPTION"), LAMBDA v6 :
    insertLabel(v6, statement.successLabel)))))))

visitStatement(tree, v) ==
    Then(pushStatementContext(v, tree), LAMBDA v1 :
    Then(insertLabel(v1, getStatementContext(v1).startLabel), LAMBDA v2 :
    Then(IF hasHandlers(v2)
         THEN insertPushInstruction(v2, "HANDLER", getStatementContext(v1).handlerLabel)
         ELSE v2, LAMBDA v3 :
    Then(acceptVisitor(getStatementContext(v1).mainClause, v3), LAMBDA v4 :
    Then(IF hasClauses(v4)
         THEN Then(insertLabel(v4, getStatementContext(v1).doneLabel), LAMBDA v5 :
              IF hasHandlers(v5)
              THEN visitStatement_handled(getStatementContext(v1), v5)
              ELSE v5)
         ELSE v4, LAMBDA v6 :
    popStatementContext(v6))))))

visitThrowClause(tree, v) ==
    Then(acceptVisitor(getChild(tree, 1), v), LAMBDA v1 :
    Then(insertHandleInstruction(v1, "EXCEPTION"), LAMBDA v2 :
    setRequiresFinalization(v2, FALSE)))

\* this.builder.constants.getValue(variable) is truthy for a constant whose
\* key is in the catalog.
\* visitVariable that looks at the constants before the parameters.
visitVariable_constantFirst(identifier, v) ==
    LET variable == "$" \o identifier.value
    IN IF hasKey(v.constants, parse(variable))
       THEN insertPushInstruction(v, "CONSTANT", variable)
       ELSE IF containsItem(v.parameters, parse(variable))
            THEN insertPushInstruction(v, "PARAMETER", variable)
            ELSE Then(insertLoadInstruction(v, "VARIABLE", variable), LAMBDA v1 :
                 [v1 EXCEPT !.variables = addItem(@, parse(variable))])

visitVariable(identifier, v) ==
    LET variable == "$" \o identifier.value
    IN IF containsItem(v.parameters, parse(variable))
       THEN insertPushInstruction(v, "PARAMETER", variable)
       ELSE IF hasKey(v.constants, parse(variable))
            THEN insertPushInstruction(v, "CONSTANT", variable)
            ELSE Then(insertLoadInstruction(v, "VARIABLE", variable), LAMBDA v1 :
                 [v1 EXCEPT !.variables = addItem(@, parse(variable))])

visitWhileClause(tree, v) ==
    LET condition == getChild(tree, 1)
        block == getChild(tree, 2)
        clausePrefix == getClausePrefix(v)
    IN Then(setLoopLabel(v, clausePrefix \o "ConditionClause"), LAMBDA v1 :
       Then(insertLabel(v1, getStatementContext(v1).loopLabel), LAMBDA v2 :
       Then(acceptVisitor(condition, v2), LAMBDA v3 :
       Then(insertJumpInstruction(v3, getStatementContext(v1).doneLabel, <<"ON", "FALSE">>), LAMBDA v4 :
       Then(acceptVisitor(block, v4), LAMBDA v5 :
       Then(insertLabel(v5, getStatementPrefix(v5) \o "ConditionRepeat"), LAMBDA v6 :
       insertJumpInstruction(v6, getStatementContext(v1).loopLabel, <<>>)))))))

\* Without a symbol the item variable is a temporary one.
\* The item variable of visitWithClause taken as a temporary even when the
\* clause names one.
visitWithClause_temporary(tree, v) == createTemporaryVariable(v, "item")

visitWithClause_variable(tree, v) ==
    IF getSize(tree) > 2 THEN getChild(tree, 1).value ELSE createTemporaryVariable(v, "item")

visitWithClause(tree, v) ==
    LET variable == visitWithClause_variable(tree, v)
        sequence == getChild(tree, -2)
        block == getChild(tree, -1)
        clausePrefix == getClausePrefix(v)
    IN Then(IF getSize(tree) > 2 THEN v ELSE incrementTemporaryVariableCount(v), LAMBDA v0 :
       Then(setLoopLabel(v0, clausePrefix \o "ConditionClause"), LAMBDA v1 :
       Then(acceptVisitor(sequence, v1), LAMBDA v2 :
       Then(insertExecuteInstruction(v2, "$getIterator", <<"ON", "TARGET">>), LAMBDA v3 :
       Then(insertStoreInstruction(incrementTemporaryVariableCount(v3), "VARIABLE",
                                   createTemporaryVariable(v3, "iterator")), LAMBDA v5 :
       Then(insertLabel(v5, getStatementContext(v1).loopLabel), LAMBDA v6 :
       Then(insertLoadInstruction(v6, "VARIABLE", createTemporaryVariable(v3, "iterator")), LAMBDA v7 :
       Then(insertExecuteInstruction(v7, "$hasNext", <<"ON", "TARGET">>), LAMBDA v8 :
       Then(insertJumpInstruction(v8, getStatementContext(v1).doneLabel, <<"ON", "FALSE">>), LAMBDA v9 :
       Then(insertLoadInstruction(v9, "VARIABLE", createTemporaryVariable(v3, "iterator")), LAMBDA v10 :
       Then(insertExecuteInstruction(v10, "$getNext", <<"ON", "TARGET">>), LAMBDA v11 :
       Then(insertStoreInstruction(v11, "VARIABLE", variable), LAMBDA v12 :
       Then(acceptVisitor(block, v12), LAMBDA v13 :
       Then(insertLabel(v13, getStatementPrefix(v13) \o "ConditionRepeat"), LAMBDA v14 :
       insertJumpInstruction(v14, getStatementContext(v1).loopLabel, <<>>)))))))))))))))

\* collection.getParameters(), range.getParameters(), source.getParameters():
\* the parameters of a component, when it has any.
getParameters(tree) ==
    IF "parameters" \in DOMAIN tree THEN Defined(tree.parameters) ELSE Undefined

\* parameters.getCollection(): the list of the parameters.
getCollection(parameters) == [type |-> "List", value |-> "", children |-> parameters.children]

\* A switch without a default: an operator without a case inserts nothing.
visitArithmeticExpression(tree, v) ==
    Then(acceptVisitor(getChild(tree, 1), v), LAMBDA v1 :
    Then(acceptVisitor(getChild(tree, 2), v1), LAMBDA v2 :
    CASE tree.value = "*" -> insertInvokeInstruction(v2, "$product", 2)
      [] tree.value = "/" -> insertInvokeInstruction(v2, "$quotient", 2)
      [] tree.value = "//" -> insertInvokeInstruction(v2, "$remainder", 2)
      [] tree.value = "+" -> insertInvokeInstruction(v2, "$sum", 2)
      [] tree.value = "-" -> insertInvokeInstruction(v2, "$difference", 2)
      [] OTHER -> v2))

visitAssociation(association, v) ==
    Then(acceptVisitor(getChild(association, 1), v), LAMBDA v1 :
    Then(acceptVisitor(getChild(association, 2), v1), LAMBDA v2 :
    insertInvokeInstruction(v2, "$association", 2)))

RECURSIVE visitCollection_loop(_, _, _)

\* The loop of visitCollection as it would be if the items were left on the
\* stack.
visitCollection_itemsLeft(collection, i, v) ==
    IF i > getSize(collection) THEN v
    ELSE Then(acceptVisitor(getChild(collection, i), v), LAMBDA v1 :
         visitCollection_loop(collection, i + 1, v1))

visitCollection_loop(collection, i, v) ==
    IF i > getSize(collection) THEN v
    ELSE Then(acceptVisitor(getChild(collection, i), v), LAMBDA v1 :
         Then(insertInvokeInstruction(v1, "$addItem", 2), LAMBDA v2 :
         visitCollection_loop(collection, i + 1, v2)))

\* '$' + the name of the type of the collection with its first letter in
\* lower case.
visitCollection_type(collection) ==
    CASE collection.type = "List" -> "$list"
      [] collection.type = "Set" -> "$set"
      [] collection.type = "Stack" -> "$stack"
      [] collection.type = "Queue" -> "$queue"
      [] collection.type = "Catalog" -> "$catalog"

visitCollection(collection, v) ==
    LET parameters == getParameters(collection)
    IN Then(IF parameters # Undefined THEN acceptVisitor(parameters[1], v) ELSE v, LAMBDA v1 :
       Then(insertInvokeInstruction(v1, visitCollection_type(collection),
                                    IF parameters # Undefined THEN 1 ELSE 0), LAMBDA v2 :
       visitCollection_loop(collection, 1, v2)))

visitComparisonExpression(tree, v) ==
    Then(acceptVisitor(getChild(tree, 1), v), LAMBDA v1 :
    Then(acceptVisitor(getChild(tree, 2), v1), LAMBDA v2 :
    CASE tree.value = "<" -> insertInvokeInstruction(v2, "$isLessThan", 2)
      [] tree.value = "=" -> insertInvokeInstruction(v2, "$isEqualTo", 2)
      [] tree.value = ">" -> insertInvokeInstruction(v2, "$isMoreThan", 2)
      [] tree.value = "is" -> insertInvokeInstruction(v2, "$isSameAs", 2)
      [] tree.value = "matches" -> insertInvokeInstruction(v2, "$isMatchedBy", 2)
      [] OTHER -> v2))

visitComplementExpression(tree, v) ==
    Then(acceptVisitor(getChild(tree, 1), v), LAMBDA v1 :
    insertInvokeInstruction(v1, "$complement", 1))

visitConcatenationExpression(tree, v) ==
    Then(acceptVisitor(getChild(tree, 1), v), LAMBDA v1 :
    Then(acceptVisitor(getChild(tree, 2), v1), LAMBDA v2 :
    insertInvokeInstruction(v2, "$concatenation", 2)))

visitDefaultExpression(tree, v) ==
    Then(acceptVisitor(getChild(tree, 1), v), LAMBDA v1 :
    Then(acceptVisitor(getChild(tree, 2), v1), LAMBDA v2 :
    insertInvokeInstruction(v2, "$default", 2)))

visitDereferenceExpression(tree, v) ==
    Then(acceptVisitor(getChild(tree, 1), v), LAMBDA v1 :
    Then(insertStoreInstruction(incrementTemporaryVariableCount(v1), "VARIABLE",
                                createTemporaryVariable(v1, "location")), LAMBDA v2 :
    insertLoadInstruction(v2, "DOCUMENT", createTemporaryVariable(v1, "location"))))

visitExponentialExpression(tree, v) ==
    Then(acceptVisitor(getChild(tree, 1), v), LAMBDA v1 :
    Then(acceptVisitor(getChild(tree, 2), v1), LAMBDA v2 :
    insertInvokeInstruction(v2, "$exponential", 2)))

visitFactorialExpression(tree, v) ==
    Then(acceptVisitor(getChild(tree, 1), v), LAMBDA v1 :
    insertInvokeInstruction(v1, "$factorial", 1))

\* All the indices but the last one are replaced by the subcomponent they
\* select; the last index stays on the stack above its parent.
RECURSIVE visitIndices_loop(_, _, _)
visitIndices_loop(list, i, v) ==
    IF i >= getSize(list) THEN v
    ELSE Then(insertInvokeInstruction(v, "$list", 0), LAMBDA v1 :
         Then(acceptVisitor(getChild(list, i), v1), LAMBDA v2 :
         Then(insertInvokeInstruction(v2, "$addItem", 2), LAMBDA v3 :
         Then(insertInvokeInstruction(v3, "$parameters", 1), LAMBDA v4 :
         Then(insertExecuteInstruction(v4, "$getSubcomponent",
                                       <<"ON", "TARGET", "WITH", "PARAMETERS">>), LAMBDA v5 :
         visitIndices_loop(list, i + 1, v5))))))

visitIndices(tree, v) ==
    LET list == getChild(tree, 1)
    IN Then(visitIndices_loop(list, 1, v), LAMBDA v1 :
       acceptVisitor(getChild(list, getSize(list)), v1))

visitInversionExpression(tree, v) ==
    Then(acceptVisitor(getChild(tree, 1), v), LAMBDA v1 :
    CASE tree.value = "-" -> insertInvokeInstruction(v1, "$inverse", 1)
      [] tree.value = "/" -> insertInvokeInstruction(v1, "$reciprocal", 1)
      [] tree.value = "*" -> insertInvokeInstruction(v1, "$conjugate", 1)
      [] OTHER -> v1)

visitLogicalExpression(tree, v) ==
    Then(acceptVisitor(getChild(tree, 1), v), LAMBDA v1 :
    Then(acceptVisitor(getChild(tree, 2), v1), LAMBDA v2 :
    CASE tree.value = "and" -> insertInvokeInstruction(v2, "$and", 2)
      [] tree.value = "sans" -> insertInvokeInstruction(v2, "$sans", 2)
      [] tree.value = "xor" -> insertInvokeInstruction(v2, "$xor", 2)
      [] tree.value = "or" -> insertInvokeInstruction(v2, "$or", 2)
      [] OTHER -> v2))

visitMagnitudeExpression(tree, v) ==
    Then(acceptVisitor(getChild(tree, 1), v), LAMBDA v1 :
    insertInvokeInstruction(v1, "$magnitude", 1))

visitMessageExpression(tree, v) ==
    LET target == getChild(tree, 1)
        message == getChild(tree, 2)
        parameters == getChild(tree, 3)
        numberOfParameters == getSize(parameters)
        procedureName == "$" \o message.value
    IN Then(acceptVisitor(target, v), LAMBDA v1 :
       IF numberOfParameters > 0
       THEN Then(acceptVisitor(parameters, v1), LAMBDA v2 :
            insertExecuteInstruction(v2, procedureName, <<"ON", "TARGET", "WITH", "PARAMETERS">>))
       ELSE insertExecuteInstruction(v1, procedureName, <<"ON", "TARGET">>))

visitParameters(parameters, v) ==
    Then(acceptVisitor(getCollection(parameters), v), LAMBDA v1 :
    insertInvokeInstruction(v1, "$parameters", 1))

\* range.getFirst() and range.getLast() are the two children of the range.
visitRange(range, v) ==
    LET parameters == getParameters(range)
    IN Then(acceptVisitor(getChild(range, 1), v), LAMBDA v1 :
       Then(acceptVisitor(getChild(range, 2), v1), LAMBDA v2 :
       Then(IF parameters # Undefined THEN acceptVisitor(parameters[1], v2) ELSE v2, LAMBDA v3 :
       insertInvokeInstruction(v3, "$range", IF parameters # Undefined THEN 3 ELSE 2))))

\* The value of a source node is the text of its procedure.
visitSource(tree, v) ==
    LET parameters == getParameters(tree)
    IN Then(insertPushInstruction(v, "LITERAL", "{" \o tree.value \o "}"), LAMBDA v1 :
       IF parameters # Undefined
       THEN Then(acceptVisitor(parameters[1], v1), LAMBDA v2 :
            insertInvokeInstruction(v2, "$setParameters", 2))
       ELSE v1)

visitSubcomponentExpression(tree, v) ==
    LET component == getChild(tree, 1)
        indices == getChild(tree, 2)
    IN Then(acceptVisitor(component, v), LAMBDA v1 :
       Then(acceptVisitor(indices, v1), LAMBDA v2 :
       Then(insertStoreInstruction(incrementTemporaryVariableCount(v2), "VARIABLE",
                                   createTemporaryVariable(v2, "index")), LAMBDA v3 :
       Then(insertInvokeInstruction(v3, "$list", 0), LAMBDA v4 :
       Then(insertLoadInstruction(v4, "VARIABLE", createTemporaryVariable(v2, "index")), LAMBDA v5 :
       Then(insertInvokeInstruction(v5, "$addItem", 2), LAMBDA v6 :
       Then(insertInvokeInstruction(v6, "$parameters", 1), LAMBDA v7 :
       insertExecuteInstruction(v7, "$getSubcomponent",
                                <<"ON", "TARGET", "WITH", "PARAMETERS">>))))))))

\* checkoutClause: 'checkout' recipient 'from' expression
visitCheckoutClause(tree, v) ==
    LET recipient == getChild(tree, 1)
        reference == getChild(tree, 2)
    IN Then(acceptVisitor(recipient, v), LAMBDA v1 :
       Then(acceptVisitor(reference, v1), LAMBDA v2 :
       Then(insertStoreInstruction(incrementTemporaryVariableCount(v2), "VARIABLE",
                                   createTemporaryVariable(v2, "location")), LAMBDA v3 :
       Then(insertLoadInstruction(v3, "DOCUMENT", createTemporaryVariable(v2, "location")), LAMBDA v4 :
       setRecipient(recipient, v4)))))

\* waitClause: 'wait' 'for' recipient 'from' expression
visitWaitClause(tree, v) ==
    LET recipient == getChild(tree, 1)
        reference == getChild(tree, 2)
    IN Then(acceptVisitor(recipient, v), LAMBDA v1 :
       Then(acceptVisitor(reference, v1), LAMBDA v2 :
       Then(insertStoreInstruction(incrementTemporaryVariableCount(v2), "VARIABLE",
                                   createTemporaryVariable(v2, "queue")), LAMBDA v3 :
       Then(insertLoadInstruction(v3, "MESSAGE", createTemporaryVariable(v2, "queue")), LAMBDA v4 :
       setRecipient(recipient, v4)))))

acceptVisitor(tree, v) ==
    CASE tree.type = "ArithmeticExpression" -> visitArithmeticExpression(tree, v)
      [] tree.type = "Association" -> visitAssociation(tree, v)
      [] tree.type = "Block" -> visitBlock(tree, v)
      [] tree.type = "BreakClause" -> visitBreakClause(tree, v)
      [] tree.type \in {"List", "Set", "Stack", "Queue", "Catalog"} -> visitCollection(tree, v)
      [] tree.type = "ComparisonExpression" -> visitComparisonExpression(tree, v)
      [] tree.type = "ComplementExpression" -> visitComplementExpression(tree, v)
      [] tree.type = "ConcatenationExpression" -> visitConcatenationExpression(tree, v)
      [] tree.type = "DefaultExpression" -> visitDefaultExpression(tree, v)
      [] tree.type = "DereferenceExpression" -> visitDereferenceExpression(tree, v)
      [] tree.type = "ExponentialExpression" -> visitExponentialExpression(tree, v)
      [] tree.type = "FactorialExpression" -> visitFactorialExpression(tree, v)
      [] tree.type = "Indices" -> visitIndices(tree, v)
      [] tree.type = "InversionExpression" -> visitInversionExpression(tree, v)
      [] tree.type = "LogicalExpression" -> visitLogicalExpression(tree, v)
      [] tree.type = "MagnitudeExpression" -> visitMagnitudeExpression(tree, v)
      [] tree.type = "MessageExpression" -> visitMessageExpression(tree, v)
      [] tree.type = "Parameters" -> visitParameters(tree, v)
      [] tree.type = "Range" -> visitRange(tree, v)
      [] tree.type = "Source" -> visitSource(tree, v)
      [] tree.type = "SubcomponentExpression" -> visitSubcomponentExpression(tree, v)
      [] tree.type = "Symbol" -> visitElement(tree, v)
      [] tree.type = "ContinueClause" -> visitContinueClause(tree, v)
      [] tree.type = "Element" -> visitElement(tree, v)
      [] tree.type = "EvaluateClause" -> visitEvaluateClause(tree, v)
      [] tree.type = "FunctionExpression" -> visitFunctionExpression(tree, v)
      [] tree.type = "HandleClause" -> visitHandleClause(tree, v)
      [] tree.type = "IfClause" -> visitIfClause(tree, v)
      [] tree.type = "Procedure" -> visitProcedure(tree, v)
      [] tree.type = "ReturnClause" -> visitReturnClause(tree, v)
      [] tree.type = "SelectClause" -> visitSelectClause(tree, v)
      [] tree.type = "Statement" -> visitStatement(tree, v)
      [] tree.type = "ThrowClause" -> visitThrowClause(tree, v)
      [] tree.type = "Variable" -> visitVariable(tree, v)
      [] tree.type = "CheckoutClause" -> visitCheckoutClause(tree, v)
      [] tree.type = "WaitClause" -> visitWaitClause(tree, v)
      [] tree.type = "WhileClause" -> visitWhileClause(tree, v)
      [] tree.type = "WithClause" -> visitWithClause(tree, v)

getInstructions(v) ==
    IF v.requiresFinalization THEN finalize(v) ELSE v

-----------------------------------------------------------------------------
(* Types: the numeric codes of operations and modifiers, in the order of   *)
(* the instruction table.  SKIP shares the code of JUMP: a step without a  *)
(* modifier is a skip.                                                     *)

SKIP == 0
JUMP == 0
PUSH == 1
POP == 2
LOAD == 3
STORE == 4
INVOKE == 5
EXECUTE == 6
HANDLE == 7

\* The operation of a comment step; the operations 0..7 are the handled ones.
NOTE == 8

ON_ANY == 0
ON_NONE == 1
ON_TRUE == 2
ON_FALSE == 3

HANDLER == 0
LITERAL == 1
MOD_CONSTANT == 2
PARAMETER == 3
ARGUMENT == 3     \* the parser's name of the PARAMETER modifier

COMPONENT == 1

MOD_VARIABLE == 0
MESSAGE == 1
DRAFT == 2
DOCUMENT == 3

WITH_NOTHING == 0
WITH_PARAMETERS == 1
ON_TARGET == 2
ON_TARGET_WITH_PARAMETERS == 3

EXCEPTION == 0
RESULT == 1

jumpModifierValue(tokens) ==
    CASE tokens = <<"ON", "NONE">> -> ON_NONE
      [] tokens = <<"ON", "TRUE">> -> ON_TRUE
      [] tokens = <<"ON", "FALSE">> -> ON_FALSE

jumpModifierString(modifier) ==
    CASE modifier = ON_NONE -> <<"ON", "NONE">>
      [] modifier = ON_TRUE -> <<"ON", "TRUE">>
      [] modifier = ON_FALSE -> <<"ON", "FALSE">>

pushModifierValue(token) ==
    CASE token = "HANDLER" -> HANDLER
      [] token = "LITERAL" -> LITERAL
      [] token = "CONSTANT" -> MOD_CONSTANT
      [] token = "PARAMETER" -> PARAMETER

pushModifierString(modifier) ==
    CASE modifier = HANDLER -> "HANDLER"
      [] modifier = LITERAL -> "LITERAL"
      [] modifier = MOD_CONSTANT -> "CONSTANT"
      [] modifier = PARAMETER -> "PARAMETER"

popModifierValue(token) ==
    CASE token = "HANDLER" -> HANDLER
      [] token = "COMPONENT" -> COMPONENT

popModifierString(modifier) ==
    CASE modifier = HANDLER -> "HANDLER"
      [] modifier = COMPONENT -> "COMPONENT"

loadModifierValue(token) ==
    CASE token = "VARIABLE" -> MOD_VARIABLE
      [] token = "MESSAGE" -> MESSAGE
      [] token = "DRAFT" -> DRAFT
      [] token = "DOCUMENT" -> DOCUMENT

loadModifierString(modifier) ==
    CASE modifier = MOD_VARIABLE -> "VARIABLE"
      [] modifier = MESSAGE -> "MESSAGE"
      [] modifier = DRAFT -> "DRAFT"
      [] modifier = DOCUMENT -> "DOCUMENT"

storeModifierValue(token) == loadModifierValue(token)

storeModifierString(modifier) == loadModifierString(modifier)

executeModifierValue(tokens) ==
    CASE tokens = <<>> -> WITH_NOTHING
      [] tokens = <<"WITH", "PARAMETERS">> -> WITH_PARAMETERS
      [] tokens = <<"ON", "TARGET">> -> ON_TARGET
      [] tokens = <<"ON", "TARGET", "WITH", "PARAMETERS">> -> ON_TARGET_WITH_PARAMETERS

executeModifierString(modifier) ==
    CASE modifier = WITH_PARAMETERS -> <<"WITH", "PARAMETERS">>
      [] modifier = ON_TARGET -> <<"ON", "TARGET">>
      [] modifier = ON_TARGET_WITH_PARAMETERS -> <<"ON", "TARGET", "WITH", "PARAMETERS">>

handleModifierValue(token) ==
    CASE token = "EXCEPTION" -> EXCEPTION
      [] token = "RESULT" -> RESULT

handleModifierString(modifier) ==
    CASE modifier = EXCEPTION -> "EXCEPTION"
      [] modifier = RESULT -> "RESULT"

\* Number(token) of a decimal token.
Number(token) == CHOOSE n \in 0..9 : ToString(n) = token

-----------------------------------------------------------------------------
(* Parser: the assembly text is parsed into a list of steps.  A step is a  *)
(* catalog with the attributes $label, $operation, $modifier and $operand; *)
(* $label, $modifier and $operand are optional values.                     *)

Step(operation, modifier, operand) ==
    [label |-> Undefined, operation |-> operation, modifier |-> modifier, operand |-> operand]

\* comment: COMMENT.  The step of a comment has no modifier and no operand
\* (its $comment attribute is read by nothing that is modelled here).
visitComment(ctx) == Step(NOTE, Undefined, Undefined)

visitSkipInstruction(ctx) == Step(SKIP, Undefined, Undefined)

\* ctx.children[3] and ctx.children[4] are the fourth and fifth tokens.
visitJumpInstruction(ctx) ==
    Step(JUMP,
         Defined(IF Len(ctx) > 3 THEN jumpModifierValue(<<ctx[4], ctx[5]>>) ELSE ON_ANY),
         Defined(text(ctx[3])))

visitPushInstruction(ctx) ==
    LET modifier == pushModifierValue(ctx[2])
        operand == ctx[3]
        value == CASE modifier = HANDLER -> text(operand)
                   [] modifier = LITERAL -> parse(slice1m1(operand))
                   [] modifier \in {MOD_CONSTANT, ARGUMENT} -> parse(operand)
    IN Step(PUSH, Defined(modifier), Defined(value))

visitPopInstruction(ctx) == Step(POP, Defined(popModifierValue(ctx[2])), Undefined)

visitLoadInstruction(ctx) ==
    Step(LOAD, Defined(loadModifierValue(ctx[2])), Defined(parse(ctx[3])))

visitStoreInstruction(ctx) ==
    Step(STORE, Defined(storeModifierValue(ctx[2])), Defined(parse(ctx[3])))

\* The count is read only from an instruction of five tokens.
visitInvokeInstruction_fiveTokens(ctx) ==
    Step(INVOKE,
         Defined(IF Len(ctx) = 5 THEN Number(ctx[4]) ELSE 0),
         Defined(parse(ctx[2])))

\* 'INVOKE' SYMBOL | 'INVOKE' SYMBOL 'WITH' 'PARAMETER' |
\* 'INVOKE' SYMBOL 'WITH' NUMBER 'PARAMETERS'
visitInvokeInstruction(ctx) ==
    Step(INVOKE,
         Defined(CASE Len(ctx) = 2 -> 0
                   [] Len(ctx) = 4 -> 1
                   [] Len(ctx) = 5 -> Number(ctx[4])),
         Defined(parse(ctx[2])))

visitExecuteInstruction(ctx) ==
    Step(EXECUTE, Defined(executeModifierValue(SubSeq(ctx, 3, Len(ctx)))), Defined(parse(ctx[2])))

visitHandleInstruction(ctx) == Step(HANDLE, Defined(handleModifierValue(ctx[2])), Undefined)

visitInstruction(ctx) ==
    CASE ctx[1] = "--" -> visitComment(ctx)
      [] ctx[1] = "SKIP" -> visitSkipInstruction(ctx)
      [] ctx[1] = "JUMP" -> visitJumpInstruction(ctx)
      [] ctx[1] = "PUSH" -> visitPushInstruction(ctx)
      [] ctx[1] = "POP" -> visitPopInstruction(ctx)
      [] ctx[1] = "LOAD" -> visitLoadInstruction(ctx)
      [] ctx[1] = "STORE" -> visitStoreInstruction(ctx)
      [] ctx[1] = "INVOKE" -> visitInvokeInstruction(ctx)
      [] ctx[1] = "EXECUTE" -> visitExecuteInstruction(ctx)
      [] ctx[1] = "HANDLE" -> visitHandleInstruction(ctx)

isLabelLine(line) == Len(line) = 2 /\ line[2] = ":"

\* visitStep: the instruction, with the label of the line before it.
visitStep(labelLine, ctx) ==
    IF labelLine # <<>>
    THEN [visitInstruction(ctx) EXCEPT !.label = Defined(text(labelLine[1]))]
    ELSE visitInstruction(ctx)

\* visitInstructions: blank lines separate the steps, a label line belongs
\* to the instruction on the next line.
RECURSIVE visitInstructions(_, _)
visitInstructions(lines, i) ==
    IF i > Len(lines) THEN <<>>
    ELSE IF lines[i] = <<>> THEN visitInstructions(lines, i + 1)
    ELSE IF isLabelLine(lines[i])
         THEN <<visitStep(lines[i], lines[i + 1])>> \o visitInstructions(lines, i + 2)
         ELSE <<visitStep(<<>>, lines[i])>> \o visitInstructions(lines, i + 1)

\* document: EOL* instructions EOL* EOF, with at least one step.
isDocument(lines) == \E i \in 1..Len(lines) : lines[i] # <<>>

parseInstructions(assembly) == visitInstructions(assembly, 1)

-----------------------------------------------------------------------------
(* Formatter: the list of steps is written as canonical assembly text.     *)

formatJumpInstruction(instruction) ==
    IF instruction.modifier = Undefined
    THEN <<"SKIP", "INSTRUCTION">>
    ELSE <<"JUMP", "TO", instruction.operand[1].text>> \o
         (IF instruction.modifier[1] # ON_ANY THEN jumpModifierString(instruction.modifier[1]) ELSE <<>>)

formatPushInstruction(instruction) ==
    <<"PUSH", pushModifierString(instruction.modifier[1]),
      CASE instruction.modifier[1] = HANDLER -> instruction.operand[1].text
        [] instruction.modifier[1] = LITERAL -> backticked(formatComponent(instruction.operand[1]))
        [] instruction.modifier[1] \in {MOD_CONSTANT, PARAMETER} -> formatComponent(instruction.operand[1])>>

formatPopInstruction(instruction) == <<"POP", popModifierString(instruction.modifier[1])>>

formatLoadInstruction(instruction) ==
    <<"LOAD", loadModifierString(instruction.modifier[1]), formatComponent(instruction.operand[1])>>

formatStoreInstruction(instruction) ==
    <<"STORE", storeModifierString(instruction.modifier[1]), formatComponent(instruction.operand[1])>>

formatInvokeInstruction(instruction) ==
    <<"INVOKE", formatComponent(instruction.operand[1])>> \o
    (IF instruction.modifier[1] > 0
     THEN (IF instruction.modifier[1] > 1
           THEN <<"WITH", ToString(instruction.modifier[1]), "PARAMETERS">>
           ELSE <<"WITH", "PARAMETER">>)
     ELSE <<>>)

formatExecuteInstruction(instruction) ==
    <<"EXECUTE", formatComponent(instruction.operand[1])>> \o
    (IF instruction.modifier[1] # WITH_NOTHING
     THEN executeModifierString(instruction.modifier[1]) ELSE <<>>)

formatHandleInstruction(instruction) == <<"HANDLE", handleModifierString(instruction.modifier[1])>>

\* FormattingVisitor.visitCatalog: the label line, preceded by a blank line
\* unless it belongs to the first step, then the instruction.
formatStep(step, first) ==
    (IF step.label # Undefined
     THEN (IF first THEN <<>> ELSE << <<>> >>) \o << <<step.label[1].text, ":">> >>
     ELSE <<>>)
    \o << CASE step.operation = JUMP -> formatJumpInstruction(step)
            [] step.operation = PUSH -> formatPushInstruction(step)
            [] step.operation = POP -> formatPopInstruction(step)
            [] step.operation = LOAD -> formatLoadInstruction(step)
            [] step.operation = STORE -> formatStoreInstruction(step)
            [] step.operation = INVOKE -> formatInvokeInstruction(step)
            [] step.operation = EXECUTE -> formatExecuteInstruction(step)
            [] step.operation = HANDLE -> formatHandleInstruction(step) >>

RECURSIVE formatInstructions_loop(_, _)
formatInstructions_loop(instructions, i) ==
    IF i > Len(instructions) THEN <<>>
    ELSE formatStep(instructions[i], i = 1) \o formatInstructions_loop(instructions, i + 1)

formatInstructions(instructions) == formatInstructions_loop(instructions, 1)

-----------------------------------------------------------------------------
(* Compiler.compileProcedure.                                              *)

RECURSIVE compileProcedure_parameters(_, _)
compileProcedure_parameters(parameters, i) ==
    IF i > Len(parameters) THEN <<>>
    ELSE LET parameter == IF parameters[i].type = "Association"
                          THEN getChild(parameters[i], 1) ELSE parameters[i]
         IN <<parse(parameter.value)>> \o compileProcedure_parameters(parameters, i + 1)

\* The compilation context before the procedure is visited.
newContext(src) ==
    [ parameters |-> compileProcedure_parameters(src.parameters, 1),
      variables |-> <<parse("$target")>>,
      procedures |-> <<>>,
      addresses |-> <<>>,
      instructions |-> Undefined,
      bytecode |-> Undefined ]

\* The visitor after procedure.acceptVisitor(visitor) and getInstructions().
compileVisitor(typeContext, src) ==
    getInstructions(acceptVisitor(src.procedure, InstructionBuilder(typeContext, newContext(src))))

\* The outcome of compileProcedure: the visitor it used, the exception it
\* threw (if any) and the compilation context it returns.  The text of the
\* builder is parsed and formatted again before it is stored.
compileProcedure_failure(finished) ==
    IF Thrown(finished) THEN finished.exception
    ELSE IF ~isDocument(finished.asmcode) THEN "$syntaxError"
    ELSE NoException

compileProcedure(typeContext, src) ==
    Bind(compileVisitor(typeContext, src), LAMBDA finished :
    Bind(compileProcedure_failure(finished), LAMBDA failure :
       [ visitor |-> finished,
         exception |-> failure,
         context |->
            IF failure # NoException THEN Undefined
            ELSE Defined(
                 [ parameters |-> finished.parameters,
                   variables |-> finished.variables,
                   procedures |-> finished.procedures,
                   addresses |-> finished.addresses,
                   instructions |-> Defined(formatInstructions(parseInstructions(finished.asmcode))),
                   bytecode |-> Undefined ]) ]))

-----------------------------------------------------------------------------
(* Intrinsics: the registry of intrinsic function names.                   *)

\* names = Object.keys(intrinsics): the keys in the order they are written.
names ==
    << "$invalid", "$addItem", "$addItems", "$ancestry", "$and",
       "$arccosine", "$arcsine", "$arctangent", "$areEqual", "$areSame",
       "$association", "$attribute", "$attributes", "$authority", "$base2",
       "$base16", "$base32", "$base64", "$binary", "$boolean",
       "$bytes", "$catalog", "$citation", "$cleanType", "$code",
       "$coinToss", "$comparison", "$compileType", "$complement", "$component",
       "$concatenation", "$conjugate", "$containsAll", "$containsAny", "$containsItem",
       "$cosine", "$day", "$days", "$default", "$degrees",
       "$difference", "$document", "$doesMatch", "$duplicate", "$duration",
       "$earlier", "$exponential", "$extraction", "$factorial", "$first",
       "$format", "$fragment", "$hash", "$hasNext", "$hasPrevious",
       "$head", "$hour", "$hours", "$HTML", "$imaginary",
       "$index", "$insertItem", "$insertItems", "$instance", "$integer",
       "$interfaces", "$inverse", "$isEmpty", "$isInfinite", "$isLess",
       "$isMore", "$isNext", "$isParameterized", "$isType", "$isUndefined",
       "$isZero", "$item", "$items", "$iterator", "$key",
       "$keys", "$last", "$later", "$levels", "$list",
       "$logarithm", "$magnitude", "$millisecond", "$milliseconds", "$minute",
       "$minutes", "$month", "$months", "$next", "$nextVersion",
       "$node", "$not", "$now", "$or", "$parameter",
       "$parameters", "$path", "$phase", "$previous", "$probability",
       "$procedure", "$product", "$query", "$queue", "$quotient",
       "$radians", "$range", "$real", "$reciprocal", "$remainder",
       "$removeAll", "$removeAttribute", "$removeAttributes", "$removeHead", "$removeIndex",
       "$removeItem", "$removeItems", "$removeRange", "$removeTop", "$reverseItems",
       "$sans", "$scaled", "$scheme", "$second", "$seconds",
       "$set", "$setAttribute", "$setItem", "$setParameter", "$setValue",
       "$shuffleItems", "$sine", "$size", "$sortItems", "$stack",
       "$sum", "$supplement", "$supportsInterface", "$tag", "$tangent",
       "$toEnd", "$top", "$toSlot", "$toStart", "$type",
       "$value", "$weeks", "$xor", "$year", "$years" >>

\* index(name): names.indexOf(name), an exception when the result is below 1.
\* The result 0 stands for the thrown $invalidName exception.
indexOf(array, item) ==
    IF \E i \in 1..Len(array) : array[i] = item
    THEN (CHOOSE i \in 1..Len(array) : array[i] = item /\ \A j \in 1..(i - 1) : array[j] # item) - 1
    ELSE -1

index(name) == indexOf(names, name)

\* name(index): names[index], an exception when there is no such entry or
\* the entry is an empty string.  JavaScript counts the entries from 0.
intrinsicName(i) ==
    IF i \in 0..(Len(names) - 1) /\ names[i + 1] # ""
    THEN [value |-> Defined(names[i + 1]), exception |-> NoException]
    ELSE [value |-> Undefined, exception |-> "$invalidIndex"]

\* functions[k] is intrinsics[names[k]]; the function is known by its name.
functions == [i \in 1..Len(names) |-> names[i]]

\* invoke(index, ...): the call of functions[index], an exception when the
\* index is below 1 or not below names.length.
invoke(i) ==
    IF i < 1 \/ i >= Len(names)
    THEN [value |-> Undefined, exception |-> "$invalidIndex"]
    ELSE [value |-> Defined(functions[i + 1]), exception |-> NoException]

-----------------------------------------------------------------------------
(* Bytecode: a word packs the operation, the modifier and the operand.     *)

OperationBits == 3
ModifierBits == 3
OperandBits == 11

RECURSIVE TwoToThe(_)
TwoToThe(n) == IF n = 0 THEN 1 ELSE 2 * TwoToThe(n - 1)

\* encodeInstruction(operation, modifier, optionalOperand): an operand that
\* is not given, or is undefined, is encoded as zero.
encodeInstruction(operation, modifier, optionalOperand) ==
    LET operand == IF optionalOperand = Undefined THEN 0 ELSE optionalOperand[1]
    IN (operation * TwoToThe(ModifierBits) + modifier) * TwoToThe(OperandBits)
       + (operand % TwoToThe(OperandBits))

decodeOperation(word) == word \div TwoToThe(ModifierBits + OperandBits)

decodeModifier(word) == (word \div TwoToThe(OperandBits)) % TwoToThe(ModifierBits)

decodeOperand(word) == word % TwoToThe(OperandBits)

-----------------------------------------------------------------------------
(* Assembler.  The assembling visitor is the record                        *)
(* [bytecode, exception] threaded through the steps.                       *)

\* visitJumpInstruction as it would be if a step without a modifier were an
\* invalid operation.
assembleJumpInstruction_skipRefused(a, compilation, instruction) ==
    IF instruction.modifier = Undefined
    THEN [a EXCEPT !.exception = "$invalidOperation"]
    ELSE [a EXCEPT !.bytecode = Append(a.bytecode,
             encodeInstruction(JUMP, instruction.modifier[1],
                               getValue(compilation.addresses, instruction.operand[1])))]

\* The position in the text of the step that carries the label.
positionOfLabel(compilation, label) ==
    LET steps == parseInstructions(compilation.instructions[1])
    IN IF \E i \in 1..Len(steps) : steps[i].label = Defined(label)
       THEN Defined(CHOOSE i \in 1..Len(steps) : steps[i].label = Defined(label))
       ELSE Undefined

\* visitJumpInstruction as it would be if the address of a label were the
\* position of the label in the text.
assembleJumpInstruction_labelPosition(a, compilation, instruction) ==
    IF instruction.modifier = Undefined
    THEN [a EXCEPT !.bytecode = Append(a.bytecode, encodeInstruction(SKIP, 0, Defined(0)))]
    ELSE [a EXCEPT !.bytecode = Append(a.bytecode,
             encodeInstruction(JUMP, instruction.modifier[1],
                               positionOfLabel(compilation, instruction.operand[1])))]

\* visitJumpInstruction as it would be if a modifier of zero counted as no
\* modifier.
assembleJumpInstruction_anyIsSkip(a, compilation, instruction) ==
    IF instruction.modifier = Undefined \/ instruction.modifier = Defined(ON_ANY)
    THEN [a EXCEPT !.bytecode = Append(a.bytecode, encodeInstruction(SKIP, 0, Defined(0)))]
    ELSE [a EXCEPT !.bytecode = Append(a.bytecode,
             encodeInstruction(JUMP, instruction.modifier[1],
                               getValue(compilation.addresses, instruction.operand[1])))]

assembleJumpInstruction(a, compilation, instruction) ==
    IF instruction.modifier = Undefined
    THEN [a EXCEPT !.bytecode = Append(a.bytecode, encodeInstruction(SKIP, 0, Defined(0)))]
    ELSE LET modifier == instruction.modifier[1]
             label == instruction.operand[1]
             address == getValue(compilation.addresses, label)
         IN [a EXCEPT !.bytecode = Append(a.bytecode, encodeInstruction(JUMP, modifier, address))]

assemblePushInstruction(a, typeContext, compilation, instruction) ==
    LET modifier == instruction.modifier[1]
        operand == instruction.operand[1]
        value == CASE modifier = HANDLER -> getValue(compilation.addresses, operand)
                   [] modifier = LITERAL -> Defined(getIndex(typeContext.literals, operand))
                   [] modifier = MOD_CONSTANT ->
                          Defined(getIndex(getKeys(typeContext.constants), operand))
                   [] modifier = PARAMETER -> Defined(getIndex(compilation.parameters, operand))
    IN [a EXCEPT !.bytecode = Append(a.bytecode, encodeInstruction(PUSH, modifier, value))]

assemblePopInstruction(a, instruction) ==
    [a EXCEPT !.bytecode =
        Append(a.bytecode, encodeInstruction(POP, instruction.modifier[1], Undefined))]

assembleLoadInstruction(a, compilation, instruction) ==
    LET idx == getIndex(compilation.variables, instruction.operand[1])
    IN [a EXCEPT !.bytecode =
           Append(a.bytecode, encodeInstruction(LOAD, instruction.modifier[1], Defined(idx)))]

assembleStoreInstruction(a, compilation, instruction) ==
    LET idx == getIndex(compilation.variables, instruction.operand[1])
    IN [a EXCEPT !.bytecode =
           Append(a.bytecode, encodeInstruction(STORE, instruction.modifier[1], Defined(idx)))]

assembleInvokeInstruction(a, instruction) ==
    LET count == instruction.modifier[1]
        idx == index(formatComponent(instruction.operand[1]))
    IN IF idx < 1
       THEN [a EXCEPT !.exception = "$invalidName"]
       ELSE [a EXCEPT !.bytecode =
                Append(a.bytecode, encodeInstruction(INVOKE, count, Defined(idx)))]

\* The procedures set holds the names the builder added as plain strings.
assembleExecuteInstruction(a, compilation, instruction) ==
    LET idx == getIndex(compilation.procedures, formatComponent(instruction.operand[1]))
    IN [a EXCEPT !.bytecode =
           Append(a.bytecode, encodeInstruction(EXECUTE, instruction.modifier[1], Defined(idx)))]

assembleHandleInstruction(a, instruction) ==
    [a EXCEPT !.bytecode =
        Append(a.bytecode, encodeInstruction(HANDLE, instruction.modifier[1], Undefined))]

\* visitCatalog that passes over a step it has no case for.
assembleStep_unknownIgnored(a, typeContext, compilation, step) ==
    CASE step.operation = JUMP -> assembleJumpInstruction(a, compilation, step)
      [] step.operation = PUSH -> assemblePushInstruction(a, typeContext, compilation, step)
      [] step.operation = POP -> assemblePopInstruction(a, step)
      [] step.operation = LOAD -> assembleLoadInstruction(a, compilation, step)
      [] step.operation = STORE -> assembleStoreInstruction(a, compilation, step)
      [] step.operation = INVOKE -> assembleInvokeInstruction(a, step)
      [] step.operation = EXECUTE -> assembleExecuteInstruction(a, compilation, step)
      [] step.operation = HANDLE -> assembleHandleInstruction(a, step)
      [] OTHER -> a

\* AssemblingVisitor.visitCatalog
assembleStep(a, typeContext, compilation, step) ==
    CASE step.operation = JUMP -> assembleJumpInstruction(a, compilation, step)
      [] step.operation = PUSH -> assemblePushInstruction(a, typeContext, compilation, step)
      [] step.operation = POP -> assemblePopInstruction(a, step)
      [] step.operation = LOAD -> assembleLoadInstruction(a, compilation, step)
      [] step.operation = STORE -> assembleStoreInstruction(a, compilation, step)
      [] step.operation = INVOKE -> assembleInvokeInstruction(a, step)
      [] step.operation = EXECUTE -> assembleExecuteInstruction(a, compilation, step)
      [] step.operation = HANDLE -> assembleHandleInstruction(a, step)
      [] OTHER -> [a EXCEPT !.exception = "$invalidOperation"]

\* AssemblingVisitor.visitList
RECURSIVE assembleList(_, _, _, _, _)
assembleList(a, typeContext, compilation, instructions, i) ==
    IF i > Len(instructions) THEN a
    ELSE Then(assembleStep(a, typeContext, compilation, instructions[i]), LAMBDA a1 :
         assembleList(a1, typeContext, compilation, instructions, i + 1))

\* Assembler.assembleProcedure: the outcome of the assembling visitor.
assembleProcedure(typeContext, compilation) ==
    IF ~isDocument(compilation.instructions[1])
    THEN [bytecode |-> <<>>, exception |-> "$syntaxError"]
    ELSE Bind(parseInstructions(compilation.instructions[1]), LAMBDA instructions :
         assembleList([bytecode |-> <<>>, exception |-> NoException],
                      typeContext, compilation, instructions, 1))

-----------------------------------------------------------------------------
(* Syntax trees of procedures, by the grammar rule of each node.           *)

Element(string) == Node("Element", string, <<>>)

Variable(identifier) == Node("Variable", identifier, <<>>)

Symbol(string) == Node("Symbol", string, <<>>)

Association(key, value) == Node("Association", "", <<key, value>>)

\* function parameters
FunctionExpression(name, parameters) ==
    Node("FunctionExpression", "", <<Node("Function", name, <<>>), Node("Parameters", "", parameters)>>)

Procedure(statements) == Node("Procedure", "", statements)

Block(statements) == Node("Block", "", <<Procedure(statements)>>)

Statement(mainClause, handleClauses) == Node("Statement", "", <<mainClause>> \o handleClauses)

HandleClause(symbol, template, block) == Node("HandleClause", "", <<Symbol(symbol), template, block>>)

ReturnClause(expressions) == Node("ReturnClause", "", expressions)

ThrowClause(expression) == Node("ThrowClause", "", <<expression>>)

CheckoutClause(recipient, reference) == Node("CheckoutClause", "", <<recipient, reference>>)

WaitClause(recipient, reference) == Node("WaitClause", "", <<recipient, reference>>)

BreakClause == Node("BreakClause", "", <<>>)

ContinueClause == Node("ContinueClause", "", <<>>)

EvaluateClause(recipients, expression) == Node("EvaluateClause", "", recipients \o <<expression>>)

RECURSIVE Pairs(_, _, _)
Pairs(conditions, blocks, i) ==
    IF i > Len(blocks) THEN <<>>
    ELSE <<conditions[i], blocks[i]>> \o Pairs(conditions, blocks, i + 1)

\* 'if' condition 'then' block ('else' 'if' condition 'then' block)* ('else' block)?
IfClause(conditions, blocks, elseBlocks) ==
    Node("IfClause", "", Pairs(conditions, blocks, 1) \o elseBlocks)

\* 'select' selector 'from' (option 'do' block)+ ('else' block)?
SelectClause(selector, options, blocks, elseBlocks) ==
    Node("SelectClause", "", <<selector>> \o Pairs(options, blocks, 1) \o elseBlocks)

WhileClause(condition, block) == Node("WhileClause", "", <<condition, block>>)

\* 'with' ('each' symbol 'in')? sequence 'do' block
WithClause(symbols, sequence, block) == Node("WithClause", "", symbols \o <<sequence, block>>)

Source(parameters, procedure) == [parameters |-> parameters, procedure |-> procedure]

\* An expression of two operands or of one; the value is the operator.
Binary(t, operator, first, second) == Node(t, operator, <<first, second>>)

Unary(t, operator, operand) == Node(t, operator, <<operand>>)

ParametersOf(items) == Node("Parameters", "", items)

\* A component with parameters.
Parameterized(tree, items) ==
    [type |-> tree.type, value |-> tree.value, children |-> tree.children,
     parameters |-> ParametersOf(items)]

\* An element with parameters: they are its child.
ParameterizedElement(string, items) == Node("Element", string, <<ParametersOf(items)>>)

Collection(t, items) == Node(t, "", items)

RangeOf(first, last) == Node("Range", "", <<first, last>>)

SourceOf(string) == Node("Source", string, <<>>)

MessageExpression(target, message, items) ==
    Node("MessageExpression", "", <<target, Node("Message", message, <<>>), ParametersOf(items)>>)

SubcomponentExpression(component, items) ==
    Node("SubcomponentExpression", "",
         <<component, Node("Indices", "", <<Collection("List", items)>>)>>)

-----------------------------------------------------------------------------
(* The bounded families of sources the specification compiles.             *)

SeqsUpTo(S, n) == UNION {[1..k -> S] : k \in 0..n}

SeqsFromTo(S, m, n) == UNION {[1..k -> S] : k \in m..n}

\* The type context: a literal that is already interned and one constant.
TypeContext ==
    [ literals |-> <<parse("none")>>,
      constants |-> <<[key |-> parse("$k"), value |-> parse("5")],
                      [key |-> parse("$p"), value |-> parse("6")]>> ]

\* The parameters of every source: a plain symbol and a symbol with a default.
Parameters == <<Symbol("$p"), Association(Symbol("$q"), Element("1"))>>

\* A literal, a variable, a parameter and a constant.
Expressions == {Element("true"), Variable("x"), Variable("p"), Variable("k")}

\* n arguments of which the first k are named; every argument loads $a.
Arguments(n) ==
    {[i \in 1..n |-> IF i <= k THEN Association(Symbol("$name"), Variable("a")) ELSE Variable("a")]
        : k \in 0..n}

FunctionExpressions ==
    UNION {{FunctionExpression("list", a) : a \in Arguments(n)} : n \in 0..MaxParameters}

condition == Variable("c")

\* The expressions of every kind, over a literal and a variable.
Items == {[i \in 1..n |-> IF i = 1 THEN Variable("x") ELSE Element("1")] : n \in 0..MaxItems}

BinaryExpressions ==
    {Binary("ArithmeticExpression", o, Variable("x"), Element("1")) : o \in {"*", "/", "//", "+", "-"}}
    \cup {Binary("ComparisonExpression", o, Variable("x"), Element("1")) :
             o \in {"<", "=", ">", "is", "matches"}}
    \cup {Binary("LogicalExpression", o, Variable("x"), Element("1")) :
             o \in {"and", "sans", "xor", "or"}}
    \cup {Binary(t, "", Variable("x"), Element("1")) :
             t \in {"ConcatenationExpression", "DefaultExpression", "ExponentialExpression"}}

UnaryExpressions ==
    {Unary("InversionExpression", o, Variable("x")) : o \in {"-", "/", "*"}}
    \cup {Unary(t, "", Variable("x")) :
             t \in {"ComplementExpression", "FactorialExpression", "MagnitudeExpression",
                    "DereferenceExpression"}}

Collections ==
    {Collection(t, items) : t \in {"List", "Set", "Stack", "Queue"}, items \in Items}
    \cup {Collection("Catalog", [i \in 1..Len(items) |-> Association(Symbol("$key"), items[i])]) :
            items \in Items}

ComponentExpressions ==
    Collections
    \cup {Parameterized(c, <<Element("1")>>) : c \in Collections}
    \cup {RangeOf(Element("1"), Variable("x")),
          Parameterized(RangeOf(Element("1"), Variable("x")), <<Element("1")>>),
          SourceOf("return x"), Parameterized(SourceOf("return x"), <<Element("1")>>),
          ParameterizedElement("true", <<Element("1")>>)}

CallExpressions ==
    {MessageExpression(Variable("x"), "message", items) : items \in Items}
    \cup {SubcomponentExpression(Variable("x"), items) : items \in Items \ {<<>>}}

NestedExpressions ==
    {Binary("ArithmeticExpression", "+",
            SubcomponentExpression(Collection("List", <<Variable("x")>>), <<Element("1"), Element("2")>>),
            MessageExpression(Unary("MagnitudeExpression", "", Variable("x")), "message",
                              <<RangeOf(Element("1"), Element("2"))>>))}

AllExpressions ==
    Expressions \cup FunctionExpressions \cup BinaryExpressions \cup UnaryExpressions
    \cup ComponentExpressions \cup CallExpressions \cup NestedExpressions

\* The statements that evaluate one expression.
ExpressionStatements == {Statement(EvaluateClause(<<>>, e), <<>>) : e \in AllExpressions}

ReturnStatement == Statement(ReturnClause(<<Variable("x")>>), <<>>)

ThrowStatement == Statement(ThrowClause(Variable("e")), <<>>)

EvaluateStatement == Statement(EvaluateClause(<<Symbol("$y")>>, Variable("x")), <<>>)

BreakStatement == Statement(BreakClause, <<>>)

ContinueStatement == Statement(ContinueClause, <<>>)

\* Main clauses without a block.
SimpleClauses ==
    {ReturnClause(<<>>), ThrowClause(Variable("x")), BreakClause, ContinueClause,
     EvaluateClause(<<>>, Element("true"))}
    \cup {ReturnClause(<<e>>) : e \in Expressions \cup FunctionExpressions}
    \cup {EvaluateClause(<<Symbol("$y")>>, e) : e \in FunctionExpressions}

\* The blocks of if and select clauses.
ConditionBlocks ==
    {Block(<<>>), Block(<<ReturnStatement>>), Block(<<EvaluateStatement>>), Block(<<BreakStatement>>)}

OptionBlocks == {Block(<<>>), Block(<<ReturnStatement>>)}

\* The blocks of while and with clauses.
LoopBlocks ==
    {Block(<<>>), Block(<<ReturnStatement>>), Block(<<EvaluateStatement>>),
     Block(<<BreakStatement>>), Block(<<ContinueStatement>>),
     Block(<<Statement(IfClause(<<condition>>, <<Block(<<BreakStatement>>)>>, <<>>), <<>>)>>)}

\* The blocks of handle clauses.
HandlerBlocks == {Block(<<>>), Block(<<ThrowStatement>>), Block(<<EvaluateStatement>>)}

ElseBlocks(blocks) == {<<>>} \cup {<<b>> : b \in blocks}

IfClauses ==
    {IfClause([i \in 1..Len(blocks) |-> condition], blocks, elseBlocks) :
        blocks \in SeqsFromTo(ConditionBlocks, 1, MaxConditions),
        elseBlocks \in ElseBlocks(ConditionBlocks)}

SelectClauses ==
    {SelectClause(Variable("x"), [i \in 1..Len(blocks) |-> Element("1")], blocks, elseBlocks) :
        blocks \in SeqsFromTo(OptionBlocks, 1, MaxConditions),
        elseBlocks \in ElseBlocks(OptionBlocks)}

WhileClauses == {WhileClause(condition, block) : block \in LoopBlocks}

WithClauses ==
    {WithClause(symbols, Variable("x"), block) :
        symbols \in {<<>>, <<Symbol("$item")>>}, block \in LoopBlocks}

\* Loops in loops: a break in the inner loop, a break or continue after the
\* inner loop has ended, a break two blocks below its loop.
InnerLoops ==
    {WhileClause(condition, Block(<<BreakStatement>>)),
     WhileClause(condition, Block(<<ContinueStatement>>)),
     WithClause(<<>>, Variable("x"),
                Block(<<Statement(IfClause(<<condition>>, <<Block(<<BreakStatement>>)>>, <<>>), <<>>)>>))}

NestedLoops ==
    {WhileClause(condition, Block(<<Statement(inner, <<>>)>> \o after)) :
        inner \in InnerLoops, after \in {<<>>, <<BreakStatement>>, <<ContinueStatement>>}}
    \cup {WithClause(<<>>, Variable("x"), Block(<<Statement(inner, <<>>), ContinueStatement>>)) :
             inner \in InnerLoops}

\* x[1] := true and x[1, 2] := true.
SubcomponentAssignments ==
    {EvaluateClause(<<SubcomponentExpression(Variable("x"), [i \in 1..n |-> Element(ToString(i))])>>,
                    Element("true")) : n \in 1..MaxItems}

\* checkout $y from x and wait for $y from x.
TransferClauses ==
    {CheckoutClause(Symbol("$y"), Variable("x")), WaitClause(Symbol("$y"), Variable("x"))}

MainClauses ==
    SimpleClauses \cup IfClauses \cup SelectClauses \cup WhileClauses \cup WithClauses
    \cup NestedLoops \cup SubcomponentAssignments \cup TransferClauses

\* The main clauses of the statements that have handle clauses.
HandledClauses ==
    {ReturnClause(<<Variable("x")>>), ThrowClause(Variable("x")),
     EvaluateClause(<<Symbol("$y")>>, Variable("x")),
     IfClause(<<condition>>, <<Block(<<ReturnStatement>>)>>, <<>>),
     IfClause(<<condition, condition>>, <<Block(<<>>), Block(<<>>)>>, <<Block(<<>>)>>),
     WhileClause(condition, Block(<<BreakStatement>>))}

HandleClauses ==
    {[i \in 1..Len(blocks) |-> HandleClause("$e", Element("none"), blocks[i])] :
        blocks \in SeqsFromTo(HandlerBlocks, 1, MaxHandlers)}

Statements ==
    {Statement(mainClause, <<>>) : mainClause \in MainClauses}
    \cup {Statement(mainClause, handleClauses) :
            mainClause \in HandledClauses, handleClauses \in HandleClauses}

\* The statements that surround the one drawn from Statements.
PlainStatements == {EvaluateStatement, ReturnStatement}

\* The procedures: at most MaxStatements statements, one of them drawn from
\* Statements and the others from PlainStatements; or no statement at all.
Procedures ==
    {Procedure(<<>>)}
    \cup {Procedure(<<statement>>) : statement \in ExpressionStatements}
    \cup {Procedure(before \o <<statement>> \o after) :
            statement \in Statements,
            before \in SeqsUpTo(PlainStatements, MaxStatements - 1),
            after \in SeqsUpTo(PlainStatements, MaxStatements - 1)}

Sources ==
    {Source(Parameters, procedure) :
        procedure \in {q \in Procedures : getSize(q) <= MaxStatements}}

\* The other procedures of the type, compiled against the same type context.
OtherSources ==
    {Source(<<>>, Procedure(<<Statement(ReturnClause(<<Element("false")>>), <<>>)>>))}

-----------------------------------------------------------------------------
(* Hand written compilation contexts, as the tests of the assembler make   *)
(* them: the address table is given, it is not derived from the text.      *)

TaskType ==
    [ literals |-> <<parse("true"), parse("none"), parse("false")>>,
      constants |-> <<[key |-> parse("$constant"), value |-> parse("5")]>> ]

TaskAddresses ==
    << [key |-> text("3.PushLiteral"), value |-> 3],
       [key |-> text("1.3.ConditionClause"), value |-> 8],
       [key |-> text("1.4.ConditionClause"), value |-> 11],
       [key |-> text("1.6.ConditionClause"), value |-> 17],
       [key |-> text("1.IfStatementDone"), value |-> 20] >>

\* The instruction lines of the hand written documents.
TaskLines ==
    { <<"SKIP", "INSTRUCTION">>,
      <<"JUMP", "TO", "1.IfStatementDone">>,
      <<"JUMP", "TO", "3.PushLiteral", "ON", "NONE">>,
      <<"JUMP", "TO", "1.4.ConditionClause", "ON", "TRUE">>,
      <<"JUMP", "TO", "1.3.ConditionClause", "ON", "FALSE">>,
      <<"PUSH", "HANDLER", "1.6.ConditionClause">>,
      <<"PUSH", "LITERAL", backticked("false")>>,
      <<"PUSH", "CONSTANT", "$constant">>,
      <<"PUSH", "PARAMETER", "$x">>,
      <<"POP", "HANDLER">>,
      <<"POP", "COMPONENT">>,
      <<"LOAD", "VARIABLE", "$foo">>,
      <<"STORE", "VARIABLE", "$queue">>,
      <<"INVOKE", "$list">>,
      <<"INVOKE", "$addItem", "WITH", "2", "PARAMETERS">>,
      <<"INVOKE", "$unknown", "WITH", "PARAMETER">>,
      <<"EXECUTE", "$function2">>,
      <<"EXECUTE", "$message1", "ON", "TARGET">>,
      <<"HANDLE", "EXCEPTION">>,
      <<"HANDLE", "RESULT">> }

\* The documents: 1..MaxSteps instruction lines, the first with or without
\* a label line.
TaskDocuments ==
    {labelLines \o lines :
        labelLines \in {<<>>, << <<"3.PushLiteral", ":">> >>},
        lines \in SeqsFromTo(TaskLines, 1, MaxSteps)}

\* loadTask: the compilation context of a hand written document.
TaskCompilation(document) ==
    [ parameters |-> <<parse("$y"), parse("$x")>>,
      variables |-> <<parse("$citation"), parse("$foo"), parse("$queue"), parse("$target")>>,
      procedures |-> <<"$function1", "$function2", "$message1", "$message2">>,
      addresses |-> TaskAddresses,
      instructions |-> Defined(formatInstructions(parseInstructions(document))),
      bytecode |-> Undefined ]

\* Hand written texts with a comment line in them, given to the assembler
\* as they are written.
CommentedLines ==
    { <<"PUSH", "LITERAL", backticked("false")>>,
      <<"INVOKE", "$unknown", "WITH", "PARAMETER">>,
      <<"HANDLE", "RESULT">> }

CommentedDocuments ==
    {before \o << <<"--", "comment">> >> \o after :
        before \in SeqsUpTo(CommentedLines, MaxSteps - 1),
        after \in SeqsUpTo(CommentedLines, 1)}

CommentedCompilation(document) ==
    [ parameters |-> <<parse("$y"), parse("$x")>>,
      variables |-> <<parse("$citation"), parse("$foo"), parse("$queue"), parse("$target")>>,
      procedures |-> <<"$function1", "$function2", "$message1", "$message2">>,
      addresses |-> TaskAddresses,
      instructions |-> Defined(document),
      bytecode |-> Undefined ]

-----------------------------------------------------------------------------
(* The state machine: a source is compiled, the compilation is assembled.  *)

Init ==
    /\ exception = NoException
    /\ visitor = Undefined
    /\ argument = Undefined
    /\ result = Undefined
    /\ \/ /\ pc = "source"
          /\ type = TypeContext
          /\ source \in {Defined(s) : s \in Sources}
          /\ context = Undefined
       \/ /\ pc = "compiled"
          /\ type = TaskType
          /\ source = Undefined
          /\ context \in {Defined(TaskCompilation(document)) : document \in TaskDocuments}
                       \cup {Defined(CommentedCompilation(document)) :
                                document \in CommentedDocuments}

\* compiler.compileProcedure(type, source).  The builder works on the
\* $literals list of the type context itself.
CompileProcedure ==
    /\ pc = "source"
    /\ \E compiled \in {compileProcedure(type, source[1])} :
          /\ visitor' = Defined(compiled.visitor)
          /\ type' = [type EXCEPT !.literals = compiled.visitor.literals]
          /\ context' = compiled.context
          /\ exception' = compiled.exception
          /\ pc' = IF compiled.exception = NoException THEN "compiled" ELSE "failed"
    /\ UNCHANGED <<source, argument, result>>

\* assembler.assembleProcedure(type, compilation).  The $bytecode attribute
\* holds the list of words; it is set only when no exception is thrown.
AssembleProcedure ==
    /\ pc = "compiled"
    /\ \E assembled \in {assembleProcedure(type, context[1])} :
          /\ exception' = assembled.exception
          /\ context' = IF assembled.exception = NoException
                        THEN Defined([context[1] EXCEPT !.bytecode = Defined(assembled.bytecode)])
                        ELSE context
          /\ pc' = IF assembled.exception = NoException THEN "assembled" ELSE "failed"
    /\ UNCHANGED <<type, source, visitor, argument, result>>

\* compiler.compileProcedure(type, other) for another procedure of the type,
\* between the compilation and the assembly of the first one: its builder
\* works on the same $literals list, its context is another catalog.
CompileAnother ==
    /\ pc = "compiled"
    /\ \E other \in OtherSources :
          \E compiled \in {compileProcedure(type, other)} :
             type' = [type EXCEPT !.literals = compiled.visitor.literals]
    /\ UNCHANGED <<source, visitor, context, exception, pc, argument, result>>

Next == CompileProcedure \/ CompileAnother \/ AssembleProcedure

Spec == Init /\ [][Next]_vars

-----------------------------------------------------------------------------
(* The intrinsic registry taken alone: one call of name, index or invoke.  *)

\* The indices the registry is asked about: every entry, and the numbers
\* next to both ends of the table.
Indices == (0 - 1)..(Len(names) + 1)

\* The names the registry is asked about: every entry, and names it lacks.
Names == Range(names) \cup {"$unknown", "$isMatchedBy"}

InitIntrinsics ==
    /\ pc = "intrinsics"
    /\ type = Undefined
    /\ source = Undefined
    /\ visitor = Undefined
    /\ context = Undefined
    /\ exception = NoException
    /\ result = Undefined
    /\ argument \in {[index |-> i] : i \in Indices} \cup {[name |-> n] : n \in Names}

IsIndex(x) == DOMAIN x = {"index"}

\* intrinsics.name(argument)
Name ==
    /\ pc = "intrinsics"
    /\ IsIndex(argument)
    /\ \E named \in {intrinsicName(argument.index)} :
          /\ result' = named.value
          /\ exception' = named.exception
    /\ pc' = "named"
    /\ UNCHANGED <<type, source, visitor, context, argument>>

\* intrinsics.index(argument)
Index ==
    /\ pc = "intrinsics"
    /\ ~IsIndex(argument)
    /\ \E found \in {index(argument.name)} :
          /\ result' = IF found < 1 THEN Undefined ELSE Defined(found)
          /\ exception' = IF found < 1 THEN "$invalidName" ELSE NoException
    /\ pc' = "indexed"
    /\ UNCHANGED <<type, source, visitor, context, argument>>

\* intrinsics.invoke(argument, ...)
Invoke ==
    /\ pc = "intrinsics"
    /\ IsIndex(argument)
    /\ \E invoked \in {invoke(argument.index)} :
          /\ result' = invoked.value
          /\ exception' = invoked.exception
    /\ pc' = "invoked"
    /\ UNCHANGED <<type, source, visitor, context, argument>>

NextIntrinsics == Name \/ Index \/ Invoke

SpecIntrinsics == InitIntrinsics /\ [][NextIntrinsics]_vars

-----------------------------------------------------------------------------
(* What the claims speak about.                                            *)

\* compileProcedure has run on the source; the variable visitor holds the
\* visitor it used.
Visited == visitor # Undefined

\* compileProcedure has returned a compilation context.
Returned == visitor # Undefined /\ context # Undefined

\* The assembleProcedure call threw: the context is there, the result is not.
AssembleFailed == pc = "failed" /\ context # Undefined

\* The assembly text of the compilation context.
Assembly == context[1].instructions[1]

isInstructionLine(line) == line # <<>> /\ ~isLabelLine(line)

InstructionsOf(lines) == SelectSeq(lines, isInstructionLine)

\* The operand of a JUMP or PUSH HANDLER line is its third token, a label.
refersToLabel(line) ==
    \/ Len(line) >= 3 /\ line[1] = "JUMP" /\ line[2] = "TO"
    \/ Len(line) = 3 /\ line[1] = "PUSH" /\ line[2] = "HANDLER"

entries(catalog, label) == {k \in 1..Len(catalog) : catalog[k].key = text(label)}

\* The least position from which the lines hold the given line, or 0.
positionFrom(lines, line, from) ==
    IF from > 0 /\ \E i \in from..Len(lines) : lines[i] = line
    THEN CHOOSE i \in from..Len(lines) :
            lines[i] = line /\ \A j \in from..(i - 1) : lines[j] # line
    ELSE 0

\* The position after the given lines, found one after the other from
\* position from on; 0 when they are not there in this order.
RECURSIVE positionAfter(_, _, _, _)
positionAfter(lines, wanted, k, from) ==
    IF k > Len(wanted) THEN from
    ELSE IF positionFrom(lines, wanted[k], from) = 0 THEN 0
    ELSE positionAfter(lines, wanted, k + 1, positionFrom(lines, wanted[k], from) + 1)

inThisOrder(lines, wanted) == positionAfter(lines, wanted, 1, 1) > 0

endsWithFinaliser(lines) ==
    /\ Len(lines) >= 2
    /\ lines[Len(lines) - 1] = <<"LOAD", "VARIABLE", "$$result">>
    /\ lines[Len(lines)] = <<"HANDLE", "RESULT">>

\* A statement without handle clauses whose main clause is a return or a throw.
isTerminated(statement) ==
    /\ getSize(statement) = 1
    /\ getChild(statement, 1).type \in {"ReturnClause", "ThrowClause"}

isReturnOnly(procedure) ==
    /\ getSize(procedure) = 1
    /\ getSize(getChild(procedure, 1)) = 1
    /\ getChild(getChild(procedure, 1), 1).type = "ReturnClause"

\* The nodes of a tree.
RECURSIVE nodesOf(_)
nodesOf(tree) == {tree} \cup UNION {nodesOf(tree.children[i]) : i \in 1..Len(tree.children)}

\* The exception the syntax of a tree calls for, its parts taken in the
\* order they are compiled: a break or continue outside of every while and
\* with statement, a function call with more than three arguments.
RECURSIVE firstFailure(_, _)
RECURSIVE firstFailure_children(_, _, _)
firstFailure(tree, inLoop) ==
    CASE tree.type \in {"BreakClause", "ContinueClause"} ->
            IF inLoop THEN NoException ELSE "$noEnclosingLoop"
      [] tree.type = "FunctionExpression" ->
            IF getSize(getChild(tree, 2)) > 3 THEN "$tooManyParameters"
            ELSE firstFailure_children(getChild(tree, 2).children, 1, inLoop)
      [] tree.type = "Statement" ->
            firstFailure_children(tree.children, 1,
                inLoop \/ getChild(tree, 1).type \in {"WhileClause", "WithClause"})
      [] OTHER -> firstFailure_children(tree.children, 1, inLoop)

firstFailure_children(children, i, inLoop) ==
    IF i > Len(children) THEN NoException
    ELSE IF firstFailure(children[i], inLoop) # NoException
         THEN firstFailure(children[i], inLoop)
         ELSE firstFailure_children(children, i + 1, inLoop)

\* The count of an INVOKE line.
countOf(line) ==
    CASE Len(line) = 2 -> 0
      [] Len(line) = 4 -> 1
      [] Len(line) = 5 -> Number(line[4])

\* The INVOKE line of a call of the function with n arguments.
invokeLine(name, n) ==
    CASE n = 0 -> <<"INVOKE", name>>
      [] n = 1 -> <<"INVOKE", name, "WITH", "PARAMETER">>
      [] OTHER -> <<"INVOKE", name, "WITH", ToString(n), "PARAMETERS">>

\* The operation an instruction line names.
operationOf(line) ==
    CASE line[1] = "SKIP" -> SKIP
      [] line[1] = "JUMP" -> JUMP
      [] line[1] = "PUSH" -> PUSH
      [] line[1] = "POP" -> POP
      [] line[1] = "LOAD" -> LOAD
      [] line[1] = "STORE" -> STORE
      [] line[1] = "INVOKE" -> INVOKE
      [] line[1] = "EXECUTE" -> EXECUTE
      [] line[1] = "HANDLE" -> HANDLE

-----------------------------------------------------------------------------
(* The claims about compileProcedure.                                      *)

\* C1: when compileProcedure has returned, every label that is the operand
\* of a JUMP or PUSH HANDLER instruction of the assembly has exactly one
\* entry in the $addresses table of the compilation context, the labels
\* inserted after the last instruction included.
C1_ReferencedLabelsHaveOneAddress ==
    Returned =>
        \A i \in 1..Len(Assembly) :
            refersToLabel(Assembly[i]) =>
                Cardinality(entries(context[1].addresses, Assembly[i][3])) = 1

\* A returned compilation whose assembly jumps to the label that is still
\* pending in the builder, and that label has no address.
C1_JumpToPendingLabel ==
    /\ Returned
    /\ visitor[1].nextLabel # NoLabel
    /\ \E i \in 1..Len(Assembly) :
          /\ refersToLabel(Assembly[i])
          /\ Assembly[i][3] = visitor[1].nextLabel
          /\ entries(context[1].addresses, Assembly[i][3]) = {}

\* C2: the last instruction of the assembly of every compiled procedure is
\* HANDLE RESULT or HANDLE EXCEPTION.
C2_LastInstructionHandles ==
    Returned =>
        /\ Assembly[Len(Assembly)][1] = "HANDLE"
        /\ Assembly[Len(Assembly)][2] \in {"RESULT", "EXCEPTION"}

\* A returned compilation of a procedure that ends with a while statement:
\* its last instruction is the jump back to the condition of the loop.
C2_LoopIsLast ==
    /\ Returned
    /\ getChild(getChild(source[1].procedure, -1), 1).type = "WhileClause"
    /\ Assembly[Len(Assembly)][1] = "JUMP"

\* C3: the finaliser (LOAD VARIABLE $$result, HANDLE RESULT) ends the text
\* exactly when the last statement of the procedure is not itself a return
\* or a throw, and the requiresFinalization flag is true in exactly that
\* case; a return or throw inside a block of the last statement does not
\* count.
C3_FinalisedUnlessTerminated ==
    (Visited /\ ~Thrown(visitor[1]) /\ getSize(source[1].procedure) > 0) =>
        /\ endsWithFinaliser(visitor[1].asmcode)
              <=> ~isTerminated(getChild(source[1].procedure, -1))
        /\ visitor[1].requiresFinalization
              <=> ~isTerminated(getChild(source[1].procedure, -1))

\* A visited procedure whose last statement is an if statement: the return
\* in its block has cleared the flag, the text has no finaliser.
C3_NestedReturnClearsFlag ==
    /\ Visited
    /\ ~Thrown(visitor[1])
    /\ getSize(source[1].procedure) > 0
    /\ getChild(getChild(source[1].procedure, -1), 1).type = "IfClause"
    /\ ~visitor[1].requiresFinalization
    /\ ~endsWithFinaliser(visitor[1].asmcode)

\* C4: the procedure without statements compiles to LOAD VARIABLE $$result
\* and HANDLE RESULT, and its variables then hold $$result and $target.
C4_EmptyProcedureIsFinalised ==
    (Visited /\ getSize(source[1].procedure) = 0) =>
        /\ visitor[1].asmcode = << <<"LOAD", "VARIABLE", "$$result">>, <<"HANDLE", "RESULT">> >>
        /\ containsItem(visitor[1].variables, parse("$$result"))
        /\ containsItem(visitor[1].variables, parse("$target"))

\* The visited procedure without statements: no instruction, no $$result,
\* and compileProcedure has thrown.
C4_EmptyProcedureHasNoText ==
    /\ Visited
    /\ getSize(source[1].procedure) = 0
    /\ visitor[1].asmcode = <<>>
    /\ ~containsItem(visitor[1].variables, parse("$$result"))
    /\ pc = "failed"

\* C5: the procedure whose only statement is return e compiles to the label
\* 1.ReturnStatement at address 1, the code of e (PUSH LITERAL none without
\* e), then HANDLE RESULT and no finaliser; with e = true these are two
\* instructions, assembled to the words PUSH LITERAL and HANDLE RESULT.
C5_ReturnOnly ==
    (Visited /\ isReturnOnly(source[1].procedure) /\ ~Thrown(visitor[1])) =>
        LET clause == getChild(getChild(source[1].procedure, 1), 1)
            code == IF getSize(clause) = 0
                    THEN << <<"PUSH", "LITERAL", backticked("none")>> >>
                    ELSE InstructionsOf(acceptVisitor(getChild(clause, 1),
                             InstructionBuilder(TypeContext, newContext(source[1]))).asmcode)
        IN /\ visitor[1].asmcode =
                  << <<"1.ReturnStatement", ":">> >> \o code \o << <<"HANDLE", "RESULT">> >>
           /\ getValue(visitor[1].addresses, text("1.ReturnStatement")) = Defined(1)
           /\ ~visitor[1].requiresFinalization
           /\ clause.children = <<Element("true")>> =>
                 /\ InstructionsOf(visitor[1].asmcode) =
                        << <<"PUSH", "LITERAL", backticked("true")>>, <<"HANDLE", "RESULT">> >>
                 /\ pc # "failed"
                 /\ pc = "assembled" =>
                       /\ Len(context[1].bytecode[1]) = 2
                       /\ decodeOperation(context[1].bytecode[1][1]) = PUSH
                       /\ decodeModifier(context[1].bytecode[1][1]) = LITERAL
                       /\ decodeOperand(context[1].bytecode[1][1]) =
                              getIndex(type.literals, parse("true"))
                       /\ getIndex(type.literals, parse("true")) > 0
                       /\ decodeOperation(context[1].bytecode[1][2]) = HANDLE
                       /\ decodeModifier(context[1].bytecode[1][2]) = RESULT

\* The procedure return true, compiled and assembled to two words.
C5_ReturnTrueAssembled ==
    /\ Visited
    /\ isReturnOnly(source[1].procedure)
    /\ getChild(getChild(source[1].procedure, 1), 1).children = <<Element("true")>>
    /\ pc = "assembled"
    /\ Len(context[1].bytecode[1]) = 2

\* C8: a break or continue clause that no while or with statement encloses
\* makes compileProcedure fail with noEnclosingLoop: no context is returned,
\* and no instruction is emitted for the clause, the label of its statement
\* is still pending and has no address.  Nothing else raises this exception.
C8_NoEnclosingLoop ==
    Visited =>
        /\ firstFailure(source[1].procedure, FALSE) = "$noEnclosingLoop"
              <=> visitor[1].exception = "$noEnclosingLoop"
        /\ visitor[1].exception = "$noEnclosingLoop" =>
              LET statement == getStatementContext(visitor[1])
              IN /\ exception = "$noEnclosingLoop"
                 /\ pc = "failed"
                 /\ context = Undefined
                 /\ statement.mainClause.type \in {"BreakClause", "ContinueClause"}
                 /\ visitor[1].nextLabel = statement.startLabel
                 /\ ~hasKey(visitor[1].addresses, text(statement.startLabel))
                 /\ \A i \in 1..Len(visitor[1].asmcode) :
                       visitor[1].asmcode[i] # <<statement.startLabel, ":">>

\* A break inside the block of an if statement that no loop encloses, after
\* instructions have been emitted: compileProcedure has failed.
C8_BreakInsideIfFails ==
    /\ Visited
    /\ visitor[1].exception = "$noEnclosingLoop"
    /\ Len(visitor[1].stack) > 1
    /\ Len(visitor[1].asmcode) > 0
    /\ context = Undefined

\* C9: a call with more than three arguments makes compileProcedure fail
\* with tooManyParameters before anything is emitted for the call; a call
\* with n <= 3 arguments emits the code of the n values (of a named argument
\* the value only) and then one INVOKE with the count n; the count of every
\* INVOKE the compiler emits is in 0..3.
C9_AtMostThreeArguments ==
    Visited =>
        /\ firstFailure(source[1].procedure, FALSE) = "$tooManyParameters"
              <=> visitor[1].exception = "$tooManyParameters"
        /\ visitor[1].exception = "$tooManyParameters" =>
              /\ exception = "$tooManyParameters"
              /\ pc = "failed"
              /\ context = Undefined
              /\ \A i \in 1..Len(visitor[1].asmcode) :
                    /\ visitor[1].asmcode[i] # <<"LOAD", "VARIABLE", "$a">>
                    /\ ~(Len(visitor[1].asmcode[i]) >= 2 /\ visitor[1].asmcode[i][1] = "INVOKE"
                         /\ visitor[1].asmcode[i][2] = "$list")
        /\ ~Thrown(visitor[1]) =>
              \A call \in {n \in nodesOf(source[1].procedure) : n.type = "FunctionExpression"} :
                 LET count == getSize(getChild(call, 2))
                     lines == visitor[1].asmcode
                 IN /\ count <= 3
                    /\ Cardinality({i \in 1..Len(lines) : lines[i] = <<"LOAD", "VARIABLE", "$a">>}) = count
                    /\ \E i \in 1..Len(lines) :
                          /\ lines[i] = invokeLine("$" \o getChild(call, 1).value, count)
                          /\ i > count
                          /\ \A j \in 1..count : lines[i - j] = <<"LOAD", "VARIABLE", "$a">>
        /\ \A i \in 1..Len(visitor[1].asmcode) :
              (visitor[1].asmcode[i] # <<>> /\ visitor[1].asmcode[i][1] = "INVOKE") =>
                  countOf(visitor[1].asmcode[i]) \in 0..3

\* A call with three arguments, one of them named, has been compiled, and a
\* call with four arguments has made compileProcedure fail.
C9_CallWithThreeArguments ==
    /\ Visited
    /\ ~Thrown(visitor[1])
    /\ \E i \in 1..Len(visitor[1].asmcode) :
          visitor[1].asmcode[i] = <<"INVOKE", "$list", "WITH", "3", "PARAMETERS">>
    /\ \E n \in nodesOf(source[1].procedure) : n.type = "Association" /\ n.children[2] = Variable("a")

\* C10: for every statement with handle clauses the assembly of the
\* procedure holds, in this order: PUSH HANDLER handlerLabel, (the main
\* clause,) the line doneLabel:, POP HANDLER, JUMP TO successLabel, the line
\* handlerLabel:, (the handle clauses, from the line of the first one on,)
\* the line failureLabel:, HANDLE EXCEPTION and the line successLabel:.
handledOrder(n, statement) ==
    LET prefix == ToString(n) \o "." \o StatementType(getChild(statement, 1)) \o "Statement"
        first == ToString(n) \o "." \o ToString(Len(getSubclauses(getChild(statement, 1))) + 1)
                 \o ".HandleClause"
    IN << <<"PUSH", "HANDLER", prefix \o "Handlers">>,
          <<prefix \o "Done", ":">>,
          <<"POP", "HANDLER">>,
          <<"JUMP", "TO", prefix \o "Succeeded">>,
          <<prefix \o "Handlers", ":">>,
          <<first, ":">>,
          <<prefix \o "Failed", ":">>,
          <<"HANDLE", "EXCEPTION">>,
          <<prefix \o "Succeeded", ":">> >>

C10_HandledStatementOrder ==
    Returned =>
        \A n \in 1..getSize(source[1].procedure) :
            getSize(getChild(source[1].procedure, n)) > 1 =>
                inThisOrder(Assembly, handledOrder(n, getChild(source[1].procedure, n)))

\* A returned compilation whose last statement has handle clauses: the text
\* holds everything up to HANDLE EXCEPTION, and has no line for the label
\* of success, which is still pending.
C10_SucceededLabelMissing ==
    /\ Returned
    /\ LET n == getSize(source[1].procedure)
           wanted == handledOrder(n, getChild(source[1].procedure, n))
       IN /\ getSize(getChild(source[1].procedure, n)) > 1
          /\ inThisOrder(Assembly, SubSeq(wanted, 1, 8))
          /\ \A i \in 1..Len(Assembly) : Assembly[i] # wanted[9]
          /\ visitor[1].nextLabel = wanted[9][1]

-----------------------------------------------------------------------------
(* The claims about assembleProcedure.                                     *)

\* C6: assembleProcedure makes one word for every instruction of the text,
\* in the order of the instructions: as many words as instructions, none
\* for a label, and the word of SKIP for every SKIP INSTRUCTION, which is
\* never refused as an invalid operation: the only steps that make the
\* assembler throw are an INVOKE of a name that is not an intrinsic and a
\* comment.
C6_OneWordForEveryInstruction ==
    /\ AssembleFailed =>
          \/ /\ exception = "$invalidName"
             /\ \E i \in 1..Len(Assembly) :
                   /\ Assembly[i] # <<>>
                   /\ Assembly[i][1] = "INVOKE"
                   /\ index(Assembly[i][2]) < 1
          \/ /\ exception = "$invalidOperation"
             /\ \E i \in 1..Len(Assembly) : Assembly[i] # <<>> /\ Assembly[i][1] = "--"
    /\ pc = "assembled" =>
          LET lines == InstructionsOf(Assembly)
              bytecode == context[1].bytecode[1]
          IN /\ Len(bytecode) = Len(lines)
             /\ \A i \in 1..Len(lines) :
                   /\ decodeOperation(bytecode[i]) = operationOf(lines[i])
                   /\ lines[i][1] = "SKIP" => bytecode[i] = encodeInstruction(SKIP, 0, Defined(0))

\* An assembled text with a label line and a SKIP INSTRUCTION in it.
C6_SkipAssembled ==
    /\ pc = "assembled"
    /\ \E i \in 1..Len(Assembly) : isLabelLine(Assembly[i])
    /\ \E i \in 1..Len(Assembly) : Assembly[i] = <<"SKIP", "INSTRUCTION">>
    /\ Len(context[1].bytecode[1]) = Len(InstructionsOf(Assembly))
    /\ Len(context[1].bytecode[1]) > 1

\* C7: in the word of a JUMP with a label and of a PUSH HANDLER the operand
\* is the address the $addresses table holds for the label, wherever the
\* label stands in the text; the operand of PUSH CONSTANT is the index of
\* the symbol in the keys of the constants, of PUSH PARAMETER in the
\* parameters, of LOAD and STORE in the variables, of EXECUTE in the
\* procedures.
C7_OperandsResolvedInTables ==
    pc = "assembled" =>
        LET lines == InstructionsOf(Assembly)
            bytecode == context[1].bytecode[1]
        IN \A i \in 1..Len(lines) :
              /\ (refersToLabel(lines[i]) /\ hasKey(context[1].addresses, text(lines[i][3]))) =>
                    decodeOperand(bytecode[i]) = getValue(context[1].addresses, text(lines[i][3]))[1]
              /\ (lines[i][1] = "PUSH" /\ lines[i][2] = "CONSTANT") =>
                    decodeOperand(bytecode[i]) = getIndex(getKeys(type.constants), parse(lines[i][3]))
              /\ (lines[i][1] = "PUSH" /\ lines[i][2] = "PARAMETER") =>
                    decodeOperand(bytecode[i]) = getIndex(context[1].parameters, parse(lines[i][3]))
              /\ lines[i][1] \in {"LOAD", "STORE"} =>
                    decodeOperand(bytecode[i]) = getIndex(context[1].variables, parse(lines[i][3]))
              /\ lines[i][1] = "EXECUTE" =>
                    decodeOperand(bytecode[i]) = getIndex(context[1].procedures, lines[i][2])

\* An assembled hand written text: the jump to the label of its first line
\* holds the address 3 of the table, not the position 1 of the label.
C7_AddressFromTable ==
    /\ pc = "assembled"
    /\ visitor = Undefined
    /\ Assembly[1] = <<"3.PushLiteral", ":">>
    /\ \E i \in 1..Len(InstructionsOf(Assembly)) :
          /\ InstructionsOf(Assembly)[i] = <<"JUMP", "TO", "3.PushLiteral", "ON", "NONE">>
          /\ decodeOperand(context[1].bytecode[1][i]) = 3

-----------------------------------------------------------------------------
(* The claims about the labels and addresses of the builder.               *)

\* The positions of the label lines of a text, and the labels on them.
labelPositions(lines) == {i \in 1..Len(lines) : isLabelLine(lines[i])}

\* The 1-based position, among the instructions, of the first instruction
\* after line i of the text.
instructionAfter(lines, i) ==
    Cardinality({j \in 1..i : isInstructionLine(lines[j])}) + 1

\* C11: no label is bound twice in one compiled procedure: the label lines
\* of the text and the label still pending are pairwise distinct, and the
\* address table has one entry for every label line, none overwritten.
C11_LabelsAreDistinct ==
    Visited =>
        LET lines == visitor[1].asmcode
        IN /\ \A i, j \in labelPositions(lines) : lines[i][1] = lines[j][1] => i = j
           /\ \A i \in labelPositions(lines) : lines[i][1] # visitor[1].nextLabel
           /\ \A i \in labelPositions(lines) : hasKey(visitor[1].addresses, text(lines[i][1]))
           /\ Len(visitor[1].addresses) = Cardinality(labelPositions(lines))

\* A visited if statement with two conditions and an else block, nested
\* blocks with statements of their own: more than six labels are bound.
C11_ManyLabelsBound ==
    /\ Visited
    /\ ~Thrown(visitor[1])
    /\ \E n \in nodesOf(source[1].procedure) : n.type = "IfClause" /\ getSize(n) = 5
    /\ Len(visitor[1].addresses) > 6

\* C12: the address of the builder is one more than the number of the
\* instructions emitted, the address recorded for a label is the position
\* of the instruction on the line after it, and the addresses of the table
\* increase strictly in the order the labels were bound.
C12_AddressesArePositions ==
    Visited =>
        LET lines == visitor[1].asmcode
            addresses == visitor[1].addresses
        IN /\ visitor[1].address = Len(InstructionsOf(lines)) + 1
           /\ \A i \in labelPositions(lines) :
                 /\ i < Len(lines)
                 /\ isInstructionLine(lines[i + 1])
                 /\ getValue(addresses, text(lines[i][1])) = Defined(instructionAfter(lines, i))
           /\ \A k \in 1..(Len(addresses) - 1) : addresses[k].value < addresses[k + 1].value
           /\ \A k \in 1..Len(addresses) : addresses[k].value \in 1..Len(InstructionsOf(lines))

\* A visited procedure with labels on its first and on later instructions.
C12_LabelsAtLaterAddresses ==
    /\ Visited
    /\ Len(visitor[1].addresses) > 2
    /\ visitor[1].addresses[1].value = 1
    /\ visitor[1].addresses[Len(visitor[1].addresses)].value > 5
    /\ visitor[1].address > 7

\* C13: at most one label is pending.  A SKIP INSTRUCTION is in the text
\* only under a label, and the next label follows it (on the next
\* instruction, or pending when the text ends there); insertLabel on a
\* builder with a pending label binds that label to a SKIP INSTRUCTION at
\* the current address and leaves the new label pending, insertLabel on a
\* builder without one changes nothing but the pending label.
C13_SkipCarriesPendingLabel ==
    Visited =>
        LET v == visitor[1]
            lines == v.asmcode
            w == insertLabel(v, "0.Label")
        IN /\ \A i \in 1..Len(lines) :
                 lines[i] = <<"SKIP", "INSTRUCTION">> =>
                    /\ i > 1
                    /\ isLabelLine(lines[i - 1])
                    /\ IF i = Len(lines) THEN v.nextLabel # NoLabel
                       ELSE /\ i + 2 <= Len(lines)
                            /\ lines[i + 1] = <<>>
                            /\ isLabelLine(lines[i + 2])
           /\ \A i \in labelPositions(lines) :
                 i < Len(lines) /\ isInstructionLine(lines[i + 1])
           /\ ~Thrown(v) =>
                 IF v.nextLabel # NoLabel
                 THEN /\ w.asmcode = (IF lines = <<>> THEN <<>> ELSE Append(lines, <<>>))
                                     \o << <<v.nextLabel, ":">>, <<"SKIP", "INSTRUCTION">> >>
                      /\ getValue(w.addresses, text(v.nextLabel)) = Defined(v.address)
                      /\ w.address = v.address + 1
                      /\ w.nextLabel = "0.Label"
                 ELSE w = [v EXCEPT !.nextLabel = "0.Label"]

\* A visited text in which a SKIP INSTRUCTION carries one label and the
\* next instruction carries the label inserted after it.
C13_SkipBetweenTwoLabels ==
    /\ Visited
    /\ \E i \in 2..(Len(visitor[1].asmcode) - 3) :
          /\ visitor[1].asmcode[i] = <<"SKIP", "INSTRUCTION">>
          /\ isLabelLine(visitor[1].asmcode[i - 1])
          /\ isLabelLine(visitor[1].asmcode[i + 2])
          /\ isInstructionLine(visitor[1].asmcode[i + 3])

-----------------------------------------------------------------------------
(* The claims about the if statement.                                      *)

\* The procedure is the one statement
\* if c1 then {..} else if c2 then {..} else {..}.
isIfElseIfElse(procedure) ==
    /\ getSize(procedure) = 1
    /\ getSize(getChild(procedure, 1)) = 1
    /\ getChild(getChild(procedure, 1), 1).type = "IfClause"
    /\ getSize(getChild(getChild(procedure, 1), 1)) = 5

hasLabelLine(lines, label) == \E i \in 1..Len(lines) : lines[i] = <<label, ":">>

\* The first JUMP line of a text (the text has one).
firstJump(lines) ==
    lines[CHOOSE i \in 1..Len(lines) :
            /\ lines[i] # <<>> /\ lines[i][1] = "JUMP"
            /\ \A j \in 1..(i - 1) : lines[j] = <<>> \/ lines[j][1] # "JUMP"]

\* C14 as stated: the text of if c1 then {..} else if c2 then {..} else {..}
\* has the labels 1.1.ConditionClause, 1.2.ConditionClause, 1.ElseClause
\* and 1.IfStatementDone, and its first JUMP is
\* JUMP TO 1.2.ConditionClause ON FALSE.
C14_IfChainLabelsAsStated ==
    (Visited /\ ~Thrown(visitor[1]) /\ isIfElseIfElse(source[1].procedure)) =>
        LET lines == visitor[1].asmcode
        IN /\ hasLabelLine(lines, "1.1.ConditionClause")
           /\ hasLabelLine(lines, "1.2.ConditionClause")
           /\ hasLabelLine(lines, "1.ElseClause")
           /\ hasLabelLine(lines, "1.IfStatementDone")
           /\ firstJump(lines) = <<"JUMP", "TO", "1.2.ConditionClause", "ON", "FALSE">>

\* C14: the text of if c1 then {..} else if c2 then {..} else {..} has the
\* labels 1.1.ConditionClause, 1.2.ConditionClause and 1.3.ElseClause (the
\* else clause is numbered like a clause, there is no label 1.ElseClause),
\* its first JUMP is JUMP TO 1.2.ConditionClause ON FALSE and the second
\* condition jumps to 1.3.ElseClause; the label 1.IfStatementDone is in the
\* text when the finaliser follows the statement and is pending otherwise.
C14_IfChainLabels ==
    (Visited /\ ~Thrown(visitor[1]) /\ isIfElseIfElse(source[1].procedure)) =>
        LET lines == visitor[1].asmcode
        IN /\ hasLabelLine(lines, "1.1.ConditionClause")
           /\ hasLabelLine(lines, "1.2.ConditionClause")
           /\ hasLabelLine(lines, "1.3.ElseClause")
           /\ ~hasLabelLine(lines, "1.ElseClause")
           /\ firstJump(lines) = <<"JUMP", "TO", "1.2.ConditionClause", "ON", "FALSE">>
           /\ \E i \in 1..Len(lines) : lines[i] = <<"JUMP", "TO", "1.3.ElseClause", "ON", "FALSE">>
           /\ IF visitor[1].requiresFinalization
              THEN hasLabelLine(lines, "1.IfStatementDone") /\ visitor[1].nextLabel = NoLabel
              ELSE ~hasLabelLine(lines, "1.IfStatementDone")
                   /\ visitor[1].nextLabel = "1.IfStatementDone"

\* The visited chain with the else label 1.3.ElseClause and the done label
\* in its text.
C14_ElseClauseIsThird ==
    /\ Visited
    /\ ~Thrown(visitor[1])
    /\ isIfElseIfElse(source[1].procedure)
    /\ hasLabelLine(visitor[1].asmcode, "1.3.ElseClause")
    /\ hasLabelLine(visitor[1].asmcode, "1.IfStatementDone")

\* The instruction before the done label of the chain: the one before the
\* line of the label, or the last one when the label is still pending.
beforeDoneLabel(lines) ==
    IF hasLabelLine(lines, "1.IfStatementDone")
    THEN lines[(CHOOSE i \in 1..Len(lines) : lines[i] = <<"1.IfStatementDone", ":">>) - 2]
    ELSE lines[Len(lines)]

\* C15 as stated: in an if / else-if / else chain the instruction right
\* before the done label 1.IfStatementDone is JUMP TO 1.IfStatementDone.
C15_JumpBeforeDoneAsStated ==
    (Visited /\ ~Thrown(visitor[1]) /\ isIfElseIfElse(source[1].procedure)) =>
        beforeDoneLabel(visitor[1].asmcode) = <<"JUMP", "TO", "1.IfStatementDone">>

\* C15: in an if / else-if / else chain the instruction right before the
\* done label 1.IfStatementDone is the SKIP INSTRUCTION that carries the
\* label 1.3.ElseClauseDone.  The unconditional JUMP TO 1.IfStatementDone
\* follows the block of each condition, under the label
\* 1.k.ConditionClauseDone, and the last of them is the instruction before
\* the else label.
C15_SkipBeforeDone ==
    (Visited /\ ~Thrown(visitor[1]) /\ isIfElseIfElse(source[1].procedure)) =>
        LET lines == visitor[1].asmcode
        IN /\ beforeDoneLabel(lines) = <<"SKIP", "INSTRUCTION">>
           /\ \A i \in 1..Len(lines) :
                 /\ lines[i] = <<"1.IfStatementDone", ":">> =>
                       lines[i - 3] = <<"1.3.ElseClauseDone", ":">>
                 /\ lines[i] = <<"1.3.ElseClause", ":">> =>
                       lines[i - 2] = <<"JUMP", "TO", "1.IfStatementDone">>
           /\ ~hasLabelLine(lines, "1.IfStatementDone") =>
                 lines[Len(lines) - 1] = <<"1.3.ElseClauseDone", ":">>
           /\ \A k \in 1..2 :
                 \E i \in 1..(Len(lines) - 1) :
                    /\ lines[i] = <<"1." \o ToString(k) \o ".ConditionClauseDone", ":">>
                    /\ lines[i + 1] = <<"JUMP", "TO", "1.IfStatementDone">>

\* The visited chain whose done label follows the skip of 1.3.ElseClauseDone
\* in the text.
C15_SkipUnderElseDone ==
    /\ Visited
    /\ ~Thrown(visitor[1])
    /\ isIfElseIfElse(source[1].procedure)
    /\ \E i \in 4..Len(visitor[1].asmcode) :
          /\ visitor[1].asmcode[i] = <<"1.IfStatementDone", ":">>
          /\ visitor[1].asmcode[i - 2] = <<"SKIP", "INSTRUCTION">>
          /\ visitor[1].asmcode[i - 3] = <<"1.3.ElseClauseDone", ":">>

-----------------------------------------------------------------------------
(* The claims about the with statement.                                    *)

\* The names createTemporaryVariable can give to an iterator.
iteratorNames == {"$$iterator-" \o ToString(k) : k \in 1..3}

\* The lines of `with (each item in) x do block` as statement n of the
\* procedure, around the line i of its loop label: the code of the sequence
\* and the iterator before it, the test and the step of the iterator after
\* it, and after the block the jump back to the loop label.
withLoopAt(lines, i, n, clause) ==
    LET prefix == ToString(n) \o "."
        loopLabel == prefix \o "1.ConditionClause"
        iterator == lines[i - 2][3]
    IN /\ i > 5
       /\ i + 7 <= Len(lines)
       /\ lines[i] = <<loopLabel, ":">>
       /\ lines[i - 5] = <<prefix \o "WithStatement", ":">>
       /\ lines[i - 4] = <<"LOAD", "VARIABLE", "$x">>
       /\ lines[i - 3] = <<"EXECUTE", "$getIterator", "ON", "TARGET">>
       /\ lines[i - 2][1] = "STORE" /\ lines[i - 2][2] = "VARIABLE"
       /\ iterator \in iteratorNames
       /\ lines[i - 1] = <<>>
       /\ lines[i + 1] = <<"LOAD", "VARIABLE", iterator>>
       /\ lines[i + 2] = <<"EXECUTE", "$hasNext", "ON", "TARGET">>
       /\ lines[i + 3] = <<"JUMP", "TO", prefix \o "WithStatementDone", "ON", "FALSE">>
       /\ lines[i + 4] = <<"LOAD", "VARIABLE", iterator>>
       /\ lines[i + 5] = <<"EXECUTE", "$getNext", "ON", "TARGET">>
       /\ lines[i + 6][1] = "STORE" /\ lines[i + 6][2] = "VARIABLE"
       /\ IF getSize(clause) > 2
          THEN lines[i + 6][3] = getChild(clause, 1).value
          ELSE lines[i + 6][3] \in {"$$item-" \o ToString(k) : k \in 1..3}
       /\ \E j \in (i + 7)..(Len(lines) - 1) :
             /\ lines[j] = <<prefix \o "ConditionRepeat", ":">>
             /\ lines[j + 1] = <<"JUMP", "TO", loopLabel>>
             \* the block stands between the step of the iterator and the jump
             /\ \A k \in 1..Len(lines) :
                   (isLabelLine(lines[k]) /\ \E m \in 1..MaxStatements :
                        lines[k][1] \in {prefix \o "1." \o ToString(m) \o "." \o t \o "Statement" :
                                            t \in {"Return", "Evaluate", "Break", "Continue", "If"}})
                      => (i + 6 < k /\ k < j)
             /\ (getSize(getChild(getChild(clause, -1), 1)) > 0) =>
                   \E k \in (i + 7)..(j - 1) : isLabelLine(lines[k])

\* C16: for every with statement of the procedure the text holds, in this
\* order and next to each other: the code of the sequence, EXECUTE
\* $getIterator ON TARGET, STORE VARIABLE iterator, the loop label on LOAD
\* VARIABLE iterator, EXECUTE $hasNext ON TARGET, JUMP TO doneLabel ON
\* FALSE, LOAD VARIABLE iterator, EXECUTE $getNext ON TARGET, STORE VARIABLE
\* $item, then the block and at last JUMP TO the loop label; the three
\* iterator operands are the same temporary variable.
C16_WithLoopOrder ==
    (Visited /\ ~Thrown(visitor[1])) =>
        \A n \in 1..getSize(source[1].procedure) :
            LET clause == getChild(getChild(source[1].procedure, n), 1)
                lines == visitor[1].asmcode
            IN clause.type = "WithClause" =>
                  /\ \E i \in 1..Len(lines) : withLoopAt(lines, i, n, clause)
                  /\ getValue(visitor[1].addresses, text(ToString(n) \o ".1.ConditionClause"))
                        = Defined(instructionAfter(lines,
                              CHOOSE i \in 1..Len(lines) : withLoopAt(lines, i, n, clause)))

\* A visited `with each $item in x do { y := x }` that follows another
\* statement: STORE VARIABLE $item is in the text.
C16_WithEachItem ==
    /\ Visited
    /\ ~Thrown(visitor[1])
    /\ getSize(source[1].procedure) > 1
    /\ \E n \in 2..getSize(source[1].procedure) :
          LET clause == getChild(getChild(source[1].procedure, n), 1)
          IN /\ clause.type = "WithClause"
             /\ getSize(clause) = 3
             /\ getChild(clause, -1) = Block(<<EvaluateStatement>>)
    /\ \E i \in 1..Len(visitor[1].asmcode) : visitor[1].asmcode[i] = <<"STORE", "VARIABLE", "$item">>

-----------------------------------------------------------------------------
(* The claims about the tables the assembler resolves operands in.         *)

isPushLiteral(line) == Len(line) = 3 /\ line[1] = "PUSH" /\ line[2] = "LITERAL"

\* C17: the literal of every PUSH LITERAL the compiler emitted is in the
\* $literals list of the type context, the list holds no literal twice,
\* and the operand of the assembled word is the position of the literal in
\* the list, also when another procedure has been compiled against the
\* type context before the assembly.
C17_LiteralsInterned ==
    Visited =>
        /\ \A i, j \in 1..Len(type.literals) : type.literals[i] = type.literals[j] => i = j
        /\ \A i \in 1..Len(visitor[1].asmcode) :
              isPushLiteral(visitor[1].asmcode[i]) =>
                 containsItem(type.literals, parse(slice1m1(visitor[1].asmcode[i][3])))
        /\ pc = "assembled" =>
              LET lines == InstructionsOf(Assembly)
              IN \A i \in 1..Len(lines) :
                    isPushLiteral(lines[i]) =>
                       /\ decodeOperand(context[1].bytecode[1][i])
                             = getIndex(type.literals, parse(slice1m1(lines[i][3])))
                       /\ decodeOperand(context[1].bytecode[1][i]) \in 1..Len(type.literals)

\* The procedure return true has been compiled, then another procedure
\* that added the literal false, then the first one has been assembled:
\* its word holds the position 2 of true.
C17_AssembledAfterAnother ==
    /\ Visited
    /\ pc = "assembled"
    /\ type.literals = <<parse("none"), parse("true"), parse("false")>>
    /\ InstructionsOf(Assembly)[1] = <<"PUSH", "LITERAL", backticked("true")>>
    /\ decodeOperand(context[1].bytecode[1][1]) = 2

\* The line names a label that has no address, or invokes a name that is
\* not an intrinsic.
isUnresolved(line, compilation) ==
    \/ refersToLabel(line) /\ ~hasKey(compilation.addresses, text(line[3]))
    \/ line # <<>> /\ line[1] = "INVOKE" /\ index(line[2]) < 1

\* C18: when the text that is assembled has a JUMP or PUSH HANDLER whose
\* label has no entry in $addresses, or an INVOKE of a name that is not an
\* intrinsic, assembleProcedure fails with an error for the reference and
\* attaches no $bytecode.
C18_UnresolvedReferenceFails ==
    (context # Undefined /\ pc \in {"assembled", "failed"}
        /\ \E i \in 1..Len(Assembly) : isUnresolved(Assembly[i], context[1])) =>
        /\ pc = "failed"
        /\ exception \in {"$invalidName", "$invalidReference"}
        /\ context[1].bytecode = Undefined

\* A compiled text whose JUMP names the label that was never bound has been
\* assembled: the word of the jump has the operand zero.
C18_UnboundLabelAssembled ==
    /\ Visited
    /\ pc = "assembled"
    /\ context[1].bytecode # Undefined
    /\ \E i \in 1..Len(InstructionsOf(Assembly)) :
          LET line == InstructionsOf(Assembly)[i]
          IN /\ refersToLabel(line)
             /\ ~hasKey(context[1].addresses, text(line[3]))
             /\ decodeOperation(context[1].bytecode[1][i]) = JUMP
             /\ decodeOperand(context[1].bytecode[1][i]) = 0

\* The operations visitCatalog of the assembler has a case for.
HandledOperations == {JUMP, PUSH, POP, LOAD, STORE, INVOKE, EXECUTE, HANDLE}

\* The exception the assembler throws at the first step it cannot assemble:
\* a step with an operation it has no case for, or an INVOKE of a name that
\* is not an intrinsic.
RECURSIVE firstRefusal(_, _)
firstRefusal(steps, i) ==
    IF i > Len(steps) THEN NoException
    ELSE IF steps[i].operation \notin HandledOperations THEN "$invalidOperation"
    ELSE IF steps[i].operation = INVOKE /\ index(formatComponent(steps[i].operand[1])) < 1
         THEN "$invalidName"
    ELSE firstRefusal(steps, i + 1)

\* C19: when the instruction list has a step whose operation is not one of
\* the eight handled operations, and no step before it is refused,
\* assembleProcedure fails with invalidOperation, whatever words the steps
\* before it made, and the $bytecode of the compilation stays unset; it
\* fails with invalidOperation in no other case.
C19_InvalidOperationFails ==
    (context # Undefined /\ pc \in {"assembled", "failed"}) =>
        LET steps == parseInstructions(Assembly)
        IN /\ firstRefusal(steps, 1) = "$invalidOperation" =>
                 /\ pc = "failed"
                 /\ exception = "$invalidOperation"
                 /\ context[1].bytecode = Undefined
           /\ exception = "$invalidOperation" => firstRefusal(steps, 1) = "$invalidOperation"
           /\ pc = "assembled" => \A i \in 1..Len(steps) : steps[i].operation \in HandledOperations

\* The assembly of a text whose second line is a comment has failed with
\* invalidOperation after the word of PUSH LITERAL was made.
C19_CommentAfterPush ==
    /\ pc = "failed"
    /\ exception = "$invalidOperation"
    /\ context # Undefined
    /\ Len(Assembly) >= 2
    /\ Assembly[1] = <<"PUSH", "LITERAL", backticked("false")>>
    /\ Assembly[2] = <<"--", "comment">>
    /\ context[1].bytecode = Undefined

\* The intrinsic names the compiling visitor writes into INVOKE instructions
\* by itself (the name of a function expression is the author's).
EmittedNames ==
    { "$sum", "$difference", "$product", "$quotient", "$remainder",
      "$isLessThan", "$isEqualTo", "$isMoreThan", "$isSameAs", "$isMatchedBy",
      "$and", "$sans", "$xor", "$or", "$concatenation", "$exponential",
      "$factorial", "$complement", "$inverse", "$reciprocal", "$conjugate",
      "$magnitude", "$default", "$setParameters", "$parameters", "$association",
      "$addItem", "$list", "$set", "$stack", "$queue", "$catalog", "$range" }

\* The emitted names the compiled text invokes.
invokedNames(lines) ==
    {lines[i][2] : i \in {j \in 1..Len(lines) :
                            /\ isInstructionLine(lines[j])
                            /\ lines[j][1] = "INVOKE"
                            /\ lines[j][2] \in EmittedNames}}

\* C20: every intrinsic name the compiler writes into an INVOKE instruction
\* of a compiled procedure has an index of at least 1 in the registry the
\* assembler looks it up in.
C20_EmittedNamesHaveIndex ==
    (pc = "compiled" /\ visitor # Undefined) =>
        \A name \in invokedNames(Assembly) : index(name) >= 1

\* The compiled text of a procedure with a handle clause invokes
\* $isMatchedBy, the registry has no index for the name, and the assembly
\* has failed with invalidName.
C20_MatchedByRefused ==
    /\ AssembleFailed
    /\ visitor # Undefined
    /\ exception = "$invalidName"
    /\ "$isMatchedBy" \in invokedNames(Assembly)
    /\ index("$isMatchedBy") < 1
    /\ \A name \in invokedNames(Assembly) : name = "$isMatchedBy" \/ index(name) >= 1

\* C21: index 0 of the registry is used by no operation.  index returns
\* the position of a registered name, counted with the placeholder at 0,
\* and fails with invalidName for an unknown name and for the placeholder;
\* name and invoke fail with invalidIndex for 0 and for every index that is
\* not below the length of the table, and succeed for the others; and the
\* index of the name of a valid index is that index.
C21_IndexZeroUnused ==
    /\ pc = "indexed" =>
          IF \E i \in 2..Len(names) : names[i] = argument.name
          THEN /\ exception = NoException
               /\ result # Undefined
               /\ result[1] >= 1
               /\ names[result[1] + 1] = argument.name
          ELSE exception = "$invalidName" /\ result = Undefined
    /\ pc \in {"named", "invoked"} =>
          IF argument.index = 0 \/ argument.index >= Len(names)
          THEN exception = "$invalidIndex" /\ result = Undefined
          ELSE argument.index >= 1 => exception = NoException /\ result # Undefined
    /\ (pc = "named" /\ argument.index >= 1 /\ exception = NoException) =>
          index(result[1]) = argument.index

\* name(0) has returned the placeholder at index 0.
C21_NameOfZero ==
    /\ pc = "named"
    /\ argument.index = 0
    /\ exception = NoException
    /\ result = Defined("$invalid")

\* The text of the compilation context has no comment line (the formatter
\* writes none).
isFormatted(lines) == \A i \in 1..Len(lines) : lines[i] = <<>> \/ lines[i][1] # "--"

isWritten(line) == line # <<>>

C23_SkipAndJumpWords ==
    pc = "assembled" =>
        LET lines == InstructionsOf(Assembly)
            bytecode == context[1].bytecode[1]
        IN \A i \in 1..Len(lines) :
              /\ lines[i][1] = "SKIP" =>
                    /\ bytecode[i] = encodeInstruction(SKIP, 0, Defined(0))
                    /\ decodeOperation(bytecode[i]) = SKIP
                    /\ decodeModifier(bytecode[i]) = 0
                    /\ decodeOperand(bytecode[i]) = 0
              /\ lines[i][1] = "JUMP" =>
                    /\ decodeOperation(bytecode[i]) = JUMP
                    /\ decodeModifier(bytecode[i]) =
                          (IF Len(lines[i]) = 3 THEN ON_ANY
                           ELSE jumpModifierValue(SubSeq(lines[i], 4, 5)))
                    /\ hasKey(context[1].addresses, text(lines[i][3])) =>
                          decodeOperand(bytecode[i]) =
                             getValue(context[1].addresses, text(lines[i][3]))[1]

\* An assembled text of the compiler with a SKIP INSTRUCTION and with an
\* unconditional jump whose word holds the address of its label.
C23_UnconditionalJumpAssembled ==
    /\ pc = "assembled"
    /\ visitor # Undefined
    /\ \E i \in 1..Len(InstructionsOf(Assembly)) :
          /\ InstructionsOf(Assembly)[i] = <<"SKIP", "INSTRUCTION">>
          /\ context[1].bytecode[1][i] = 0
    /\ \E i \in 1..Len(InstructionsOf(Assembly)) :
          /\ Len(InstructionsOf(Assembly)[i]) = 3
          /\ InstructionsOf(Assembly)[i][1] = "JUMP"
          /\ hasKey(context[1].addresses, text(InstructionsOf(Assembly)[i][3]))
          /\ decodeOperand(context[1].bytecode[1][i]) > 1
          /\ decodeModifier(context[1].bytecode[1][i]) = ON_ANY

-----------------------------------------------------------------------------
(* The claims about the code of expressions and recipients.                *)

\* What an instruction takes from the component stack and what it adds.
taken(line) ==
    CASE line[1] = "STORE" -> 1
      [] line[1] = "POP" /\ line[2] = "COMPONENT" -> 1
      [] line[1] = "INVOKE" -> countOf(line)
      [] line[1] = "EXECUTE" /\ Len(line) = 4 -> 1
      [] line[1] = "EXECUTE" /\ Len(line) = 6 -> 2
      [] OTHER -> 0

added(line) ==
    CASE line[1] \in {"PUSH", "LOAD", "INVOKE", "EXECUTE"} -> 1
      [] OTHER -> 0

\* The depth of the component stack after the first k instructions.
RECURSIVE depthAfter(_, _)
depthAfter(lines, k) ==
    IF k = 0 THEN 0 ELSE depthAfter(lines, k - 1) - taken(lines[k]) + added(lines[k])

\* The source is one statement that evaluates one expression.
isExpressionSource(src) ==
    /\ getSize(src.procedure) = 1
    /\ getSize(getChild(src.procedure, 1)) = 1
    /\ getChild(getChild(src.procedure, 1), 1).type = "EvaluateClause"
    /\ getSize(getChild(getChild(src.procedure, 1), 1)) = 1

expressionOf(src) == getChild(getChild(getChild(src.procedure, 1), 1), 1)

\* The instructions of the expression: those before the STORE of the result.
expressionCode(lines) ==
    LET instructions == InstructionsOf(lines)
        store == CHOOSE i \in 1..Len(instructions) :
                    /\ instructions[i] = <<"STORE", "VARIABLE", "$$result">>
                    /\ \A j \in 1..(i - 1) : instructions[j] # instructions[i]
    IN SubSeq(instructions, 1, store - 1)

\* C24: the instructions of an expression of any kind leave the stack one
\* deeper than they found it, and no instruction takes more from the stack
\* than the instructions before it have added, so the depth is never below
\* the one the expression started with.
C24_ExpressionAddsOne ==
    (Visited /\ ~Thrown(visitor[1]) /\ isExpressionSource(source[1])) =>
        LET code == expressionCode(visitor[1].asmcode)
        IN /\ Len(code) >= 1
           /\ depthAfter(code, Len(code)) = 1
           /\ \A k \in 1..Len(code) :
                 /\ depthAfter(code, k - 1) >= taken(code[k])
                 /\ depthAfter(code, k) >= 0

\* The compiled sum of a subcomponent with two indices and the result of a
\* message with a parameter.
C24_NestedExpressionCompiled ==
    /\ pc = "compiled"
    /\ Visited
    /\ isExpressionSource(source[1])
    /\ expressionOf(source[1]) \in NestedExpressions
    /\ Len(expressionCode(visitor[1].asmcode)) > 20
    /\ depthAfter(expressionCode(visitor[1].asmcode), 10) = 1

-----------------------------------------------------------------------------
(* The claims about the labels of statements and clauses.                  *)

\* The blocks of a statement in the order they are compiled: those of the
\* main clause, then those of the handle clauses.
blocksOf(statement) ==
    getSubclauses(getChild(statement, 1))
    \o [i \in 1..(getSize(statement) - 1) |-> getChild(getChild(statement, i + 1), 3)]

\* The statements of a procedure and of the blocks in it, each with the
\* prefix of its labels: the prefix of the procedure and the number of the
\* statement; the prefix of a block adds the number of the block.
RECURSIVE statementsOf(_, _)
statementsOf(procedure, prefix) ==
    UNION {
        LET statement == getChild(procedure, n)
            own == prefix \o ToString(n) \o "."
            blocks == blocksOf(statement)
        IN {[statement |-> statement, prefix |-> own]}
           \cup UNION {statementsOf(getChild(blocks[k], 1), own \o ToString(k) \o ".")
                         : k \in 1..Len(blocks)}
        : n \in 1..getSize(procedure)}

\* The labels a text names: on its label lines, and in its JUMP and PUSH
\* HANDLER instructions.
labelsBound(lines) == {lines[i][1] : i \in labelPositions(lines)}

labelsReferenced(lines) ==
    {lines[i][3] : i \in {j \in 1..Len(lines) : lines[j] # <<>> /\ refersToLabel(lines[j])}}

statementLabel(s, suffix) ==
    s.prefix \o StatementType(getChild(s.statement, 1)) \o "Statement" \o suffix

\* The label lines of a text after line i.
labelsAfter(lines, i) == {j \in labelPositions(lines) : j > i}

\* C25: the handler, failure and succeeded labels of a statement are named
\* in the text only when the statement has a handle clause, and there are
\* as many PUSH HANDLER instructions as statements with handle clauses; the
\* done label is named only when the statement has a block or a handle
\* clause; and after the start label of a statement with neither, the next
\* label of the text is the start label of the statement that follows it.
C25_StatementLabelsOnlyWhenNeeded ==
    (Visited /\ ~Thrown(visitor[1])) =>
        LET lines == visitor[1].asmcode
            named == labelsBound(lines) \cup labelsReferenced(lines)
            statements == statementsOf(source[1].procedure, "")
        IN /\ \A s \in statements :
                 LET handled == getSize(s.statement) > 1
                     clauses == Len(blocksOf(s.statement)) > 0
                 IN /\ statementLabel(s, "") \in labelsBound(lines)
                    /\ ~handled =>
                          \A suffix \in {"Handlers", "Failed", "Succeeded"} :
                             statementLabel(s, suffix) \notin named
                    /\ ~clauses => statementLabel(s, "Done") \notin named
           /\ Cardinality({i \in 1..Len(lines) :
                             lines[i] # <<>> /\ lines[i][1] = "PUSH" /\ lines[i][2] = "HANDLER"})
                 = Cardinality({s \in statements : getSize(s.statement) > 1})
           /\ \A n \in 1..getSize(source[1].procedure) :
                 LET statement == getChild(source[1].procedure, n)
                     s == [statement |-> statement, prefix |-> ToString(n) \o "."]
                     start == CHOOSE i \in labelPositions(lines) :
                                 lines[i][1] = statementLabel(s, "")
                 IN Len(blocksOf(statement)) = 0 =>
                       \A j \in labelsAfter(lines, start) :
                          /\ n < getSize(source[1].procedure)
                          /\ \E k \in labelsAfter(lines, start) :
                                /\ k <= j
                                /\ lines[k][1] =
                                      statementLabel([statement |-> getChild(source[1].procedure, n + 1),
                                                      prefix |-> ToString(n + 1) \o "."], "")

\* A compiled procedure of two statements: the first has neither a block
\* nor a handle clause, the second has a block and no handle clause and its
\* done label is bound.
C25_PlainThenIfStatement ==
    /\ Visited
    /\ ~Thrown(visitor[1])
    /\ getSize(source[1].procedure) = 2
    /\ Len(blocksOf(getChild(source[1].procedure, 1))) = 0
    /\ getChild(getChild(source[1].procedure, 2), 1).type = "IfClause"
    /\ getSize(getChild(source[1].procedure, 2)) = 1
    /\ "2.IfStatementDone" \in labelsReferenced(visitor[1].asmcode)
    /\ "2.IfStatementHandlers" \notin labelsBound(visitor[1].asmcode)

\* The break and continue clauses of a procedure and of the blocks in it,
\* each with the start label of its statement and the label it has to jump
\* to: the done label (break) or the loop label (continue) of the nearest
\* statement around it that is a while or a with statement.
RECURSIVE loopJumpsOf(_, _, _)
loopJumpsOf(procedure, prefix, enclosing) ==
    UNION {
        LET statement == getChild(procedure, n)
            main == getChild(statement, 1)
            own == prefix \o ToString(n) \o "."
            blocks == blocksOf(statement)
            around == IF main.type \in {"WhileClause", "WithClause"}
                      THEN Defined([done |-> own \o StatementType(main) \o "StatementDone",
                                    loop |-> own \o "1.ConditionClause"])
                      ELSE enclosing
        IN (IF main.type \in {"BreakClause", "ContinueClause"} /\ enclosing # Undefined
            THEN {[start |-> own \o StatementType(main) \o "Statement",
                   target |-> IF main.type = "BreakClause"
                              THEN enclosing[1].done ELSE enclosing[1].loop]}
            ELSE {})
           \cup UNION {loopJumpsOf(getChild(blocks[k], 1), own \o ToString(k) \o ".", around)
                         : k \in 1..Len(blocks)}
        : n \in 1..getSize(procedure)}

\* The loop statements of a procedure and of the blocks in it.
loopsOf(procedure) ==
    {s \in statementsOf(procedure, "") :
        getChild(s.statement, 1).type \in {"WhileClause", "WithClause"}}

\* C26: the instruction of a break (continue) clause, at any depth, is the
\* JUMP TO the done label (loop label) of the nearest while or with
\* statement around it; and the loop label of a while statement is bound to
\* the first instruction of its condition, that of a with statement to the
\* LOAD of its iterator.
C26_JumpToNearestLoop ==
    (Visited /\ ~Thrown(visitor[1])) =>
        LET lines == visitor[1].asmcode
        IN /\ \A jump \in loopJumpsOf(source[1].procedure, "", Undefined) :
                 \E i \in labelPositions(lines) :
                    /\ lines[i][1] = jump.start
                    /\ lines[i + 1] = <<"JUMP", "TO", jump.target>>
           /\ \A s \in loopsOf(source[1].procedure) :
                 \E i \in labelPositions(lines) :
                    /\ lines[i][1] = s.prefix \o "1.ConditionClause"
                    /\ IF getChild(s.statement, 1).type = "WhileClause"
                       THEN /\ lines[i + 1] = <<"LOAD", "VARIABLE", "$c">>
                            /\ lines[i + 2] = <<"JUMP", "TO", statementLabel(s, "Done"), "ON", "FALSE">>
                       ELSE /\ lines[i - 3] = <<"EXECUTE", "$getIterator", "ON", "TARGET">>
                            /\ lines[i - 2][1] = "STORE"
                            /\ lines[i + 1] = <<"LOAD", "VARIABLE", lines[i - 2][3]>>
                            /\ lines[i + 2] = <<"EXECUTE", "$hasNext", "ON", "TARGET">>

\* A compiled while loop around a while loop: the break of the inner loop
\* jumps to the done label of the inner statement, the continue after the
\* inner loop to the loop label of the outer one.
C26_BreakInnerContinueOuter ==
    /\ Visited
    /\ ~Thrown(visitor[1])
    /\ \E i \in labelPositions(visitor[1].asmcode) :
          /\ visitor[1].asmcode[i][1] = "1.1.1.1.1.BreakStatement"
          /\ visitor[1].asmcode[i + 1] = <<"JUMP", "TO", "1.1.1.WhileStatementDone">>
    /\ \E i \in labelPositions(visitor[1].asmcode) :
          /\ visitor[1].asmcode[i][1] = "1.1.2.ContinueStatement"
          /\ visitor[1].asmcode[i + 1] = <<"JUMP", "TO", "1.1.ConditionClause">>

\* The forward references of the chain of a statement: for each condition,
\* option and handle clause the label of the clause, the kind of what
\* follows it in the chain and the label of that.
linksOf(s) ==
    LET main == getChild(s.statement, 1)
        clause(k) == s.prefix \o ToString(k) \o "."
        chain(first, count, hasElseBlock, word) ==
            {[start |-> clause(first + i - 1) \o word,
              kind |-> IF i < count THEN word
                       ELSE IF hasElseBlock THEN "ElseClause" ELSE "Done",
              target |-> IF i < count THEN clause(first + i) \o word
                         ELSE IF hasElseBlock THEN clause(first + i) \o "ElseClause"
                         ELSE statementLabel(s, "Done")] : i \in 1..count}
        subclauses == Len(getSubclauses(main))
        handlers == getSize(s.statement) - 1
    IN (CASE main.type = "IfClause" ->
               chain(1, getSize(main) \div 2, getSize(main) % 2 = 1, "ConditionClause")
          [] main.type = "SelectClause" ->
               chain(1, (getSize(main) - 1) \div 2, (getSize(main) - 1) % 2 = 1, "OptionClause")
          [] OTHER -> {})
       \cup {[start |-> clause(subclauses + i) \o "HandleClause",
              kind |-> IF i < handlers THEN "HandleClause" ELSE "Failed",
              target |-> IF i < handlers
                         THEN clause(subclauses + i + 1) \o "HandleClause"
                         ELSE statementLabel(s, "Failed")] : i \in 1..handlers}

\* The first JUMP ... ON FALSE of a text after its line i.
jumpOnFalseAfter(lines, i) ==
    CHOOSE j \in (i + 1)..Len(lines) :
        /\ Len(lines[j]) = 5 /\ lines[j][1] = "JUMP" /\ lines[j][5] = "FALSE"
        /\ \A k \in (i + 1)..(j - 1) :
              ~(Len(lines[k]) = 5 /\ lines[k][1] = "JUMP" /\ lines[k][5] = "FALSE")

\* The lines of a text where the label is bound.
boundAt(lines, label) == {i \in labelPositions(lines) : lines[i][1] = label}

\* The text around line b is the start of what a link says follows.
startsAt(lines, b, link, s) ==
    CASE link.kind = "ConditionClause" ->
           /\ lines[b + 1] = <<"LOAD", "VARIABLE", "$c">>
           /\ lines[b + 2][1] = "JUMP"
      [] link.kind = "OptionClause" ->
           /\ lines[b + 1][1] = "LOAD"
           /\ lines[b + 3][2] = "$isMatchedBy"
      [] link.kind = "HandleClause" -> lines[b + 1] = <<"STORE", "VARIABLE", "$e">>
      [] link.kind = "ElseClause" -> lines[b - 2] = <<"JUMP", "TO", statementLabel(s, "Done")>>
      [] link.kind = "Failed" -> lines[b + 1] = <<"HANDLE", "EXCEPTION">>
      [] link.kind = "Done" -> TRUE

\* The ON FALSE jump of the clause of a link names the label of the link,
\* and the text binds that label once, after the jump, where what follows
\* in the chain starts.
linkIsBound(lines, link, s) ==
    \E a \in boundAt(lines, link.start) :
       LET j == jumpOnFalseAfter(lines, a)
       IN /\ lines[j][3] = link.target
          /\ Cardinality(boundAt(lines, link.target)) = 1
          /\ \A b \in boundAt(lines, link.target) : b > j /\ startsAt(lines, b, link, s)

\* C27 as stated: in every chain the ON FALSE jump of a condition or option
\* names the label bound at the next condition or option, at the else
\* block, or the done label of the statement; that of a handle clause the
\* label bound at the next handle clause, or the failure label of the
\* statement; and that label is bound in the text after the jump.
C27_ForwardLabelsBoundAsStated ==
    (Visited /\ ~Thrown(visitor[1])) =>
        \A s \in statementsOf(source[1].procedure, "") :
           \A link \in linksOf(s) : linkIsBound(visitor[1].asmcode, link, s)

\* C27: the same, but the done label of a chain without an else block may
\* be the label that is still pending at the end of the text: it is named
\* by the jump and bound nowhere.
C27_ForwardLabelsBoundOrPending ==
    (Visited /\ ~Thrown(visitor[1])) =>
        \A s \in statementsOf(source[1].procedure, "") :
           \A link \in linksOf(s) :
              \/ linkIsBound(visitor[1].asmcode, link, s)
              \/ /\ link.kind = "Done"
                 /\ visitor[1].nextLabel = link.target
                 /\ boundAt(visitor[1].asmcode, link.target) = {}
                 /\ \E a \in boundAt(visitor[1].asmcode, link.start) :
                       visitor[1].asmcode[jumpOnFalseAfter(visitor[1].asmcode, a)][3] = link.target

\* A compiled statement with three blocks in its main clause and two handle
\* clauses: the first handle clause is clause 4 and jumps to clause 5, the
\* second one jumps to the failure label.
C27_HandlersAfterThreeBlocks ==
    /\ Visited
    /\ ~Thrown(visitor[1])
    /\ \E a \in boundAt(visitor[1].asmcode, "1.4.HandleClause") :
          visitor[1].asmcode[jumpOnFalseAfter(visitor[1].asmcode, a)]
             = <<"JUMP", "TO", "1.5.HandleClause", "ON", "FALSE">>
    /\ \E a \in boundAt(visitor[1].asmcode, "1.5.HandleClause") :
          visitor[1].asmcode[jumpOnFalseAfter(visitor[1].asmcode, a)]
             = <<"JUMP", "TO", "1.IfStatementFailed", "ON", "FALSE">>

\* The compiled procedure whose last statement is an if clause without an
\* else block that ends with a return: the ON FALSE jump of its condition
\* names the done label, which is pending and bound nowhere in the text.
C27_LastConditionJumpsToPending ==
    /\ Visited
    /\ ~Thrown(visitor[1])
    /\ visitor[1].nextLabel = "1.IfStatementDone"
    /\ boundAt(visitor[1].asmcode, "1.IfStatementDone") = {}
    /\ \E a \in boundAt(visitor[1].asmcode, "1.1.ConditionClause") :
          visitor[1].asmcode[jumpOnFalseAfter(visitor[1].asmcode, a)]
             = <<"JUMP", "TO", "1.IfStatementDone", "ON", "FALSE">>

\* The number of references to the variable in a tree.
RECURSIVE references(_, _)
references(tree, identifier) ==
    LET below(trees) == [i \in 1..Len(trees) |-> references(trees[i], identifier)]
        sum(counts) == LET RECURSIVE total(_)
                           total(i) == IF i = 0 THEN 0 ELSE counts[i] + total(i - 1)
                       IN total(Len(counts))
    IN (IF tree.type = "Variable" /\ tree.value = identifier THEN 1 ELSE 0)
       + sum(below(tree.children))
       + (IF "parameters" \in DOMAIN tree THEN sum(below(tree.parameters.children)) ELSE 0)

\* The number of lines of a text that are the given instruction.
linesOf(lines, instruction) == Cardinality({i \in 1..Len(lines) : lines[i] = instruction})

\* The words of the instruction of a reference to the variable: a parameter
\* of the procedure, else a constant of the type, else a variable.
referenceWords(symbol) ==
    IF \E i \in 1..Len(Parameters) :
          Parameters[i] = Symbol(symbol)
          \/ (Parameters[i].type = "Association" /\ getChild(Parameters[i], 1) = Symbol(symbol))
    THEN <<"PUSH", "PARAMETER">>
    ELSE IF hasKey(TypeContext.constants, parse(symbol))
         THEN <<"PUSH", "CONSTANT">>
         ELSE <<"LOAD", "VARIABLE">>

\* C28: every reference to a variable is one instruction: PUSH PARAMETER
\* for a parameter of the procedure, also when the type has a constant of
\* that name; else PUSH CONSTANT for a constant of the type; else LOAD
\* VARIABLE, and the symbol is then one of the variables.  A reference adds
\* no parameter and no constant to the variables.
C28_ReferenceByPriority ==
    (Visited /\ ~Thrown(visitor[1])) =>
        \A identifier \in {"p", "q", "k", "x", "c", "a"} :
           LET symbol == "$" \o identifier
               count == references(source[1].procedure, identifier)
               lines == visitor[1].asmcode
               words == referenceWords(symbol)
           IN /\ \A w \in {<<"PUSH", "PARAMETER">>, <<"PUSH", "CONSTANT">>, <<"LOAD", "VARIABLE">>} :
                    linesOf(lines, w \o <<symbol>>) = IF w = words THEN count ELSE 0
              /\ containsItem(visitor[1].variables, parse(symbol))
                    <=> (count > 0 /\ words = <<"LOAD", "VARIABLE">>)

\* A reference to $p, which is a parameter of the procedure and a constant
\* of the type, compiled to PUSH PARAMETER $p.
C28_ParameterThatIsAConstant ==
    /\ Visited
    /\ ~Thrown(visitor[1])
    /\ hasKey(type.constants, parse("$p"))
    /\ containsItem(visitor[1].parameters, parse("$p"))
    /\ references(source[1].procedure, "p") = 1
    /\ linesOf(visitor[1].asmcode, <<"PUSH", "PARAMETER", "$p">>) = 1
    /\ ~containsItem(visitor[1].variables, parse("$p"))

\* The statements of a procedure that assign to a subcomponent.
assignmentsOf(procedure) ==
    {s \in statementsOf(procedure, "") :
        LET main == getChild(s.statement, 1)
        IN /\ main.type = "EvaluateClause"
           /\ getSize(main) > 1
           /\ getChild(main, 1).type = "SubcomponentExpression"}

\* The indices of the recipient of such a statement.
indicesOf(s) == getChild(getChild(getChild(getChild(s.statement, 1), 1), 2), 1).children

\* The first line of a text after line i that is the given instruction.
lineAfter(lines, i, instruction) ==
    CHOOSE j \in (i + 1)..Len(lines) :
        lines[j] = instruction /\ \A k \in (i + 1)..(j - 1) : lines[k] # instruction

getSubcomponentLine == <<"EXECUTE", "$getSubcomponent", "ON", "TARGET", "WITH", "PARAMETERS">>

setSubcomponentLine == <<"EXECUTE", "$setSubcomponent", "ON", "TARGET", "WITH", "PARAMETERS">>

\* C29 as stated: in the text of c[i1, .., iN] := e there is a
\* $getSubcomponent for each index but the last, the instruction before the
\* code of e is the code of the last index, which is left on the stack
\* above its parent, and there is exactly one EXECUTE $setSubcomponent ON
\* TARGET WITH PARAMETERS, after the code of e.
C29_FinalIndexLeftForAssignment ==
    (Visited /\ ~Thrown(visitor[1])) =>
        \A s \in assignmentsOf(source[1].procedure) :
           LET lines == visitor[1].asmcode
               start == CHOOSE a \in boundAt(lines, statementLabel(s, "")) : TRUE
               value == lineAfter(lines, start, <<"PUSH", "LITERAL", backticked("true")>>)
               last == indicesOf(s)[Len(indicesOf(s))].value
           IN /\ linesOf(lines, getSubcomponentLine) = Len(indicesOf(s)) - 1
              /\ lines[value - 1] = <<"PUSH", "LITERAL", backticked(last)>>
              /\ linesOf(lines, setSubcomponentLine) = 1
              /\ lineAfter(lines, start, setSubcomponentLine) > value

\* What the compiler does for c[i1, .., iN] := e: the recipient is compiled
\* as an expression, with a $getSubcomponent for every index, the last one
\* included, right before the code of e; then the value of e is stored in
\* the index variable of the assignment, and the parameters of the one
\* $setSubcomponent hold that variable.
C29_FinalIndexConsumedBeforeValue ==
    (Visited /\ ~Thrown(visitor[1])) =>
        \A s \in assignmentsOf(source[1].procedure) :
           LET lines == visitor[1].asmcode
               start == CHOOSE a \in boundAt(lines, statementLabel(s, "")) : TRUE
               value == lineAfter(lines, start, <<"PUSH", "LITERAL", backticked("true")>>)
           IN /\ linesOf(lines, getSubcomponentLine) = Len(indicesOf(s))
              /\ lines[value - 1] = getSubcomponentLine
              /\ lines[value + 1][1] = "STORE"
              /\ lines[value + 2] = <<"INVOKE", "$list">>
              /\ lines[value + 3] = <<"LOAD", "VARIABLE", lines[value + 1][3]>>
              /\ lines[value + 6] = setSubcomponentLine
              /\ linesOf(lines, setSubcomponentLine) = 1

\* The compiled x[1] := true: its text has a $getSubcomponent, the
\* instruction before the code of the value, and the value is what the
\* assignment stores in its index variable.
C29_GetBeforeValueOfOneIndex ==
    /\ Visited
    /\ ~Thrown(visitor[1])
    /\ \E s \in assignmentsOf(source[1].procedure) :
          /\ Len(indicesOf(s)) = 1
          /\ \E j \in 1..Len(visitor[1].asmcode) :
                /\ visitor[1].asmcode[j] = <<"PUSH", "LITERAL", backticked("true")>>
                /\ visitor[1].asmcode[j - 1] = getSubcomponentLine
                /\ visitor[1].asmcode[j + 1][1] = "STORE"

\* The checkout and wait statements of a procedure whose recipient is a
\* symbol.
transfersOf(procedure) ==
    {s \in statementsOf(procedure, "") :
        LET main == getChild(s.statement, 1)
        IN /\ main.type \in {"CheckoutClause", "WaitClause"}
           /\ getChild(main, 1).type = "Symbol"}

\* The code of such a statement: the lines from its start label to the
\* STORE of its recipient.
transferCode(lines, s) ==
    LET start == CHOOSE a \in boundAt(lines, statementLabel(s, "")) : TRUE
        recipient == getChild(getChild(s.statement, 1), 1).value
    IN SubSeq(lines, start + 1, lineAfter(lines, start, <<"STORE", "VARIABLE", recipient>>))

\* LOAD DOCUMENT for checkout, LOAD MESSAGE for wait.
transferWord(s) ==
    IF getChild(s.statement, 1).type = "CheckoutClause" THEN "DOCUMENT" ELSE "MESSAGE"

\* C30 as stated: the code of checkout $r from e and of wait for $r from e
\* is the code of e, STORE VARIABLE of a temporary, LOAD DOCUMENT (LOAD
\* MESSAGE) of that temporary and STORE VARIABLE $r, with nothing for the
\* recipient before the code of e, and it leaves the stack as it found it.
C30_NothingForSymbolRecipient ==
    (Visited /\ ~Thrown(visitor[1])) =>
        \A s \in transfersOf(source[1].procedure) :
           LET code == transferCode(visitor[1].asmcode, s)
           IN /\ Len(code) = 4
              /\ code[1] = <<"LOAD", "VARIABLE", "$x">>
              /\ code[2][1] = "STORE" /\ code[2][2] = "VARIABLE"
              /\ code[3] = <<"LOAD", transferWord(s), code[2][3]>>
              /\ depthAfter(code, Len(code)) = 0

\* What the compiler does: the recipient is visited as an element first,
\* which is PUSH LITERAL of the symbol; the four instructions follow, and
\* the statement leaves the stack one deeper than it found it.
C30_RecipientPushedFirst ==
    (Visited /\ ~Thrown(visitor[1])) =>
        \A s \in transfersOf(source[1].procedure) :
           LET code == transferCode(visitor[1].asmcode, s)
           IN /\ Len(code) = 5
              /\ code[1] = <<"PUSH", "LITERAL", backticked("$y")>>
              /\ code[2] = <<"LOAD", "VARIABLE", "$x">>
              /\ code[3][1] = "STORE" /\ code[3][2] = "VARIABLE"
              /\ code[3][3] \notin {"$x", "$y"}
              /\ code[4] = <<"LOAD", transferWord(s), code[3][3]>>
              /\ code[5] = <<"STORE", "VARIABLE", "$y">>
              /\ depthAfter(code, Len(code)) = 1

\* The compiled wait for $y from x: PUSH LITERAL $y is its first
\* instruction and LOAD MESSAGE its fourth.
C30_WaitPushesRecipient ==
    /\ Visited
    /\ ~Thrown(visitor[1])
    /\ \E s \in transfersOf(source[1].procedure) :
          /\ transferWord(s) = "MESSAGE"
          /\ transferCode(visitor[1].asmcode, s)[1] = <<"PUSH", "LITERAL", backticked("$y")>>
          /\ transferCode(visitor[1].asmcode, s)[4][2] = "MESSAGE"

====
